---- MODULE Spec2Model ----
(***************************************************************************)
(* State-machine model of the beam_slam core.                              *)
(*                                                                         *)
(*  Part I   ImuPreintegration (bs_models/src/lib/imu_preintegration.cpp)  *)
(*  Part II  VisualInertialOdom image / IMU callbacks                      *)
(*           (beam_models/src/camera_to_camera/visual_inertial_odom.cpp)   *)
(*                                                                         *)
(* Time stamps are integers.  Vector quantities are projected on the world *)
(* x axis (the x component of GRAVITY_WORLD is 0) and orientations are     *)
(* rotations about that axis, written additively as an integer angle.      *)
(***************************************************************************)
EXTENDS Integers, Sequences, FiniteSets, TLC, Bags

(***************************************************************************)
(* Bounds                                                                  *)
(***************************************************************************)
MaxStamp == 3
MaxPush == 3
MaxCalls == 3

Stamps == 1..MaxStamp

\* what front() of an empty std::queue may read, as far as a comparison with
\* the stamp t can tell: a stamp below t, t itself, or a stamp above t
Garbage(t) == {t - 1, t, t + 1}

(***************************************************************************)
(* Generic helpers                                                         *)
(***************************************************************************)
Range(s) == {s[n] : n \in 1..Len(s)}

StrictlyIncreasing(buf) ==
  \A m \in 1..Len(buf) : \A n \in 1..Len(buf) : m < n => buf[m].t < buf[n].t


(***************************************************************************)
(* State                                                                   *)
(***************************************************************************)
VARIABLES
  \* ImuPreintegration
  current_imu_data_buffer_,  \* std::queue<IMUData>: samples not yet integrated
  total_imu_data_buffer_,    \* std::queue<IMUData>: samples since state i
  pre_integrator_ij_data,    \* pre_integrator_ij.data
  imu_state_i_,              \* state at the last keyframe (the anchor)
  imu_state_k_,              \* state at the last GetPose between keyframes
  first_window_,             \* no relative constraint registered yet
  oob,                       \* front() was read on an empty std::queue
  ub,                        \* pop() was executed on an empty std::queue
  \* observation of the calls made on the preintegrator
  pushed,                    \* every sample ever given to AddToBuffer
  last,                      \* the last call and what it returned: [op, ok]
  tx,                        \* the transaction the last call returned, if any
  pose_out,                  \* T_WORLD_IMU as written by the last call, if at all
  nTx,                       \* transactions returned so far (2 = two or more)
  priorAt,                   \* which of them carried the prior on state i
  rejectedFirst,             \* a call was rejected while first_window_ held
  nCalls                     \* calls made so far, AddToBuffer aside

imuVars ==
  <<current_imu_data_buffer_, total_imu_data_buffer_, pre_integrator_ij_data,
    imu_state_i_, imu_state_k_, first_window_, oob, ub, pushed, last, tx,
    pose_out,
    nTx, priorAt, rejectedFirst, nCalls>>

\* the members of the preintegrator object itself
imuObject ==
  <<current_imu_data_buffer_, total_imu_data_buffer_, pre_integrator_ij_data,
    imu_state_i_, imu_state_k_, first_window_>>

(***************************************************************************)
(* Part I: ImuPreintegration                                               *)
(***************************************************************************)

\* bs_common::IMUData built from a message: stamp, angular velocity and linear
\* acceleration (x components); id tells two samples of equal stamp apart
IMUData(t, n) == [t |-> t, id |-> n, w |-> 1, a |-> 1]

\* bs_common::ImuState(t): identity orientation, zero position, velocity, biases
ImuState(t) == [stamp |-> t, q |-> 0, p |-> 0, v |-> 0, bg |-> 0, ba |-> 0]

\* constructor arguments init_bg, init_ba (zero in the first constructor)
bg_ == 0
ba_ == 0

\* optional (shared pointer) arguments: <<>> is a null pointer
OptVals == {<<>>, <<1>>}

\* the argument lists tried: SetStart(R, t, v) and Register...(R, t)
StartArgs == {<<<<>>, <<>>, <<>>>>, <<<<1>>, <<1>>, <<1>>>>}
RegisterArgs == {<<<<>>, <<>>>>, <<<<1>>, <<1>>>>, <<<<1>>, <<>>>>}

\* the graph handed to UpdateGraph: the anchor's variables it holds, with values
VarTypes == {"position", "orientation", "velocity", "gyrobias", "accelbias"}
GraphVals == {2}
Graphs ==
  UNION {[D -> GraphVals] :
           D \in {VarTypes} \cup {VarTypes \ {x} : x \in VarTypes}}

NullTx == [null |-> TRUE, prior |-> {}, vars |-> <<>>, rel |-> <<>>]
NoPose == [valid |-> FALSE, q |-> 0, p |-> 0]

\* front().t of a queue; g is what the read yields when the queue is empty
FrontT(buf, g) == IF buf = <<>> THEN g ELSE Head(buf).t

\* number of leading samples of buf with stamp < t
RECURSIVE LeadingBefore(_, _)
LeadingBefore(buf, t) ==
  IF buf = <<>> \/ ~(t > Head(buf).t) THEN 0
  ELSE 1 + LeadingBefore(Tail(buf), t)

\* while (t > buf.front().t) buf.pop();   -- what was popped and what is left
Popped(buf, t) == SubSeq(buf, 1, LeadingBefore(buf, t))
Rest(buf, t) == SubSeq(buf, LeadingBefore(buf, t) + 1, Len(buf))

\* the loop ends by reading front() of a queue it has emptied or found empty
ReadsPastEnd(buf, t) == Rest(buf, t) = <<>>

\* the same loop without an empty() test pops an empty queue when it runs dry
\* and the out-of-bounds front() reads a stamp below t
RunsDry(buf, t, g) == Rest(buf, t) = <<>> /\ t > g

\* bs_common::PreIntegrator::Integrate(t_now, bg, ba, ...): every sample is held
\* until the next one, the last until t_now (Euler rule, zero gravity)
ZeroDelta == [t |-> 0, q |-> 0, v |-> 0, p |-> 0]

RECURSIVE IntegrateFrom(_, _, _, _, _, _)
IntegrateFrom(data, n, t_now, bg, ba, d) ==
  IF n > Len(data) THEN d
  ELSE LET s == data[n]
           tnext == IF n = Len(data) THEN t_now ELSE data[n + 1].t
           dt == tnext - s.t
       IN IntegrateFrom(data, n + 1, t_now, bg, ba,
            [t |-> d.t + dt,
             q |-> d.q + (s.w - bg) * dt,
             v |-> d.v + (s.a - ba) * dt,
             p |-> d.p + d.v * dt])

Integrate(data, t_now, bg, ba) == IntegrateFrom(data, 1, t_now, bg, ba, ZeroDelta)

\* ImuPreintegration::PredictState
PredictState(delta, imu_state_curr, t_now) ==
  LET dt == delta.t
      q_new == imu_state_curr.q + delta.q
      v_new == imu_state_curr.v + 0 * dt + delta.v
      p_new == imu_state_curr.p + imu_state_curr.v * dt + 0 * dt * dt + delta.p
      t_new == IF t_now # 0 THEN t_now ELSE imu_state_curr.stamp + delta.t
  IN [stamp |-> t_new, q |-> q_new, p |-> p_new, v |-> v_new,
      bg |-> imu_state_curr.bg, ba |-> imu_state_curr.ba]

ImuInit ==
  /\ current_imu_data_buffer_ = <<>>
  /\ total_imu_data_buffer_ = <<>>
  /\ pre_integrator_ij_data = <<>>
  /\ imu_state_i_ = ImuState(0)
  /\ imu_state_k_ = ImuState(0)
  /\ first_window_ = TRUE
  /\ oob = FALSE
  /\ ub = FALSE
  /\ pushed = {}
  /\ last = [op |-> "none", ok |-> TRUE]
  /\ tx = NullTx
  /\ pose_out = NoPose
  /\ nTx = 0
  /\ priorAt = {}
  /\ rejectedFirst = FALSE
  /\ nCalls = 0

\* a call that ends in undefined behaviour: the object is lost
Lost(op) ==
  /\ oob' = TRUE
  /\ ub' = TRUE
  /\ last' = [op |-> op, ok |-> FALSE]
  /\ tx' = NullTx
  /\ pose_out' = NoPose
  /\ nCalls' = nCalls + 1
  /\ UNCHANGED <<imuObject, pushed, nTx, priorAt, rejectedFirst>>

\* ImuPreintegration::AddToBuffer
AddToBuffer(t) ==
  /\ ~ub
  /\ Cardinality(pushed) < MaxPush
  /\ LET imu_data == IMUData(t, Cardinality(pushed) + 1)
     IN /\ current_imu_data_buffer_' = Append(current_imu_data_buffer_, imu_data)
        /\ total_imu_data_buffer_' = Append(total_imu_data_buffer_, imu_data)
        /\ pushed' = pushed \cup {imu_data}
  /\ last' = [op |-> "AddToBuffer", ok |-> TRUE]
  /\ tx' = NullTx
  /\ pose_out' = NoPose
  /\ UNCHANGED <<pre_integrator_ij_data, imu_state_i_, imu_state_k_,
                 first_window_, oob, ub, nTx, priorAt, rejectedFirst, nCalls>>


\* ImuPreintegration::SetStart
SetStart(t_start, R_WORLD_IMU, t_WORLD_IMU, velocity, g) ==
  /\ ~ub
  /\ nCalls < MaxCalls
  /\ \/ /\ \/ RunsDry(current_imu_data_buffer_, t_start, g)
           \/ RunsDry(total_imu_data_buffer_, t_start, g)
        /\ Lost("SetStart")
     \/ /\ ~RunsDry(current_imu_data_buffer_, t_start, g)
        /\ ~RunsDry(total_imu_data_buffer_, t_start, g)
        /\ current_imu_data_buffer_' = Rest(current_imu_data_buffer_, t_start)
        /\ total_imu_data_buffer_' = Rest(total_imu_data_buffer_, t_start)
        /\ LET s0 == ImuState(t_start)
               s1 == IF R_WORLD_IMU # <<>>
                       THEN [s0 EXCEPT !.q = R_WORLD_IMU[1]] ELSE s0
               s2 == IF t_WORLD_IMU # <<>>
                       THEN [s1 EXCEPT !.p = t_WORLD_IMU[1]] ELSE s1
               s3 == IF velocity # <<>>
                       THEN [s2 EXCEPT !.v = velocity[1]] ELSE s2
               imu_state_i == [s3 EXCEPT !.bg = bg_, !.ba = ba_]
           IN /\ imu_state_i_' = imu_state_i
              /\ imu_state_k_' = imu_state_i
        /\ last' = [op |-> "SetStart", ok |-> TRUE]
        /\ tx' = NullTx
        /\ pose_out' = NoPose
        /\ nCalls' = nCalls + 1
        /\ oob' = (\/ oob
                   \/ ReadsPastEnd(current_imu_data_buffer_, t_start)
                   \/ ReadsPastEnd(total_imu_data_buffer_, t_start))
        /\ UNCHANGED <<pre_integrator_ij_data, first_window_, ub, pushed, nTx,
                       priorAt, rejectedFirst>>

\* a time check with the comparison turned round
NotReadyInverted(t_now, g) == t_now > FrontT(current_imu_data_buffer_, g)

\* the requested time check of GetPose and RegisterNewImuPreintegratedFactor
NotReady(t_now, g) == t_now < FrontT(current_imu_data_buffer_, g)

\* ImuPreintegration::GetPose
GetPose(t_now, g) ==
  /\ ~ub
  /\ nCalls < MaxCalls
  /\ \/ /\ NotReady(t_now, g)
        /\ last' = [op |-> "GetPose", ok |-> FALSE]
        /\ tx' = NullTx
        /\ pose_out' = NoPose
        /\ nCalls' = nCalls + 1
        /\ oob' = (oob \/ current_imu_data_buffer_ = <<>>)
        /\ UNCHANGED <<imuObject, ub, pushed, nTx, priorAt, rejectedFirst>>
     \/ /\ ~NotReady(t_now, g)
        /\ RunsDry(current_imu_data_buffer_, t_now, g)
        /\ Lost("GetPose")
     \/ /\ ~NotReady(t_now, g)
        /\ ~RunsDry(current_imu_data_buffer_, t_now, g)
        /\ LET interval == Popped(current_imu_data_buffer_, t_now)
               delta == Integrate(interval, t_now, imu_state_i_.bg,
                                  imu_state_i_.ba)
               imu_state_k == PredictState(delta, imu_state_k_, t_now)
           IN /\ pre_integrator_ij_data' = pre_integrator_ij_data \o interval
              /\ current_imu_data_buffer_' = Rest(current_imu_data_buffer_, t_now)
              /\ imu_state_k_' = imu_state_k
              /\ pose_out' = [valid |-> TRUE, q |-> imu_state_k.q,
                              p |-> imu_state_k.p]
        /\ last' = [op |-> "GetPose", ok |-> TRUE]
        /\ tx' = NullTx
        /\ nCalls' = nCalls + 1
        /\ oob' = (oob \/ ReadsPastEnd(current_imu_data_buffer_, t_now))
        /\ UNCHANGED <<total_imu_data_buffer_, imu_state_i_, first_window_, ub,
                       pushed, nTx, priorAt, rejectedFirst>>

\* x / y on doubles, for the integers of the model; x / 0 is not finite
NotFinite == 0 - 1000
Quot(x, y) ==
  IF y = 0 THEN NotFinite
  ELSE IF y > 0 THEN x \div y ELSE (0 - x) \div (0 - y)

\* a prior on state i in every window
PriorOnEveryWindow(first_window, imu_state_i) == {imu_state_i.stamp}

\* the stamps of the states that get the FIRST_IMU_STATE_PRIOR constraint
PriorConstraint(first_window, imu_state_i) ==
  IF first_window THEN {imu_state_i.stamp} ELSE {}

\* transaction.AddImuStateVariables(imu_state): the transaction gets variables
\* built from the values the state holds at the call, as AddPoseVariables does
\* with make_shared(position); a later Set... on the state does not reach them
AddImuStateVariables(imu_state) == <<imu_state>>

\* ImuPreintegration::RegisterNewImuPreintegratedFactor
RegisterNewImuPreintegratedFactor(t_now, R_WORLD_IMU, t_WORLD_IMU, g) ==
  /\ ~ub
  /\ nCalls < MaxCalls
  /\ LET data == pre_integrator_ij_data
                   \o Popped(current_imu_data_buffer_, t_now)
         delta == Integrate(data, t_now, imu_state_i_.bg, imu_state_i_.ba)
         predicted == PredictState(delta, imu_state_i_, t_now)
         transaction ==
           [null |-> FALSE,
            prior |-> PriorConstraint(first_window_, imu_state_i_),
            vars |-> (IF first_window_ THEN AddImuStateVariables(imu_state_i_)
                                       ELSE <<>>)
                       \o AddImuStateVariables(predicted),
            rel |-> <<[i |-> imu_state_i_.stamp, j |-> predicted.stamp,
                       data |-> data]>>]
         imu_state_j ==
           IF R_WORLD_IMU # <<>> /\ t_WORLD_IMU # <<>>
             THEN [predicted EXCEPT
                     !.q = R_WORLD_IMU[1],
                     !.p = t_WORLD_IMU[1],
                     !.v = Quot(t_WORLD_IMU[1] - imu_state_i_.p,
                                t_now - imu_state_i_.stamp)]
             ELSE predicted
         n == IF nTx < 2 THEN nTx + 1 ELSE 2
     IN \/ /\ NotReady(t_now, g)
           /\ tx' = NullTx
           /\ rejectedFirst' = (rejectedFirst \/ first_window_)
           /\ last' = [op |-> "Register", ok |-> FALSE]
           /\ pose_out' = NoPose
           /\ nCalls' = nCalls + 1
           /\ oob' = (oob \/ current_imu_data_buffer_ = <<>>)
           /\ UNCHANGED <<imuObject, ub, pushed, nTx, priorAt>>
        \/ /\ ~NotReady(t_now, g)
           /\ RunsDry(total_imu_data_buffer_, imu_state_j.stamp, g)
           /\ Lost("Register")
        \/ /\ ~NotReady(t_now, g)
           /\ ~RunsDry(total_imu_data_buffer_, imu_state_j.stamp, g)
           /\ first_window_' = FALSE
           /\ current_imu_data_buffer_' = Rest(current_imu_data_buffer_, t_now)
           /\ imu_state_i_' = imu_state_j
           /\ total_imu_data_buffer_' =
                Rest(total_imu_data_buffer_, imu_state_j.stamp)
           /\ imu_state_k_' = imu_state_j
           /\ pre_integrator_ij_data' = <<>>
           /\ tx' = transaction
           /\ nTx' = n
           /\ priorAt' = IF transaction.prior # {} THEN priorAt \cup {n}
                          ELSE priorAt
           /\ last' = [op |-> "Register", ok |-> TRUE]
           /\ pose_out' = NoPose
           /\ nCalls' = nCalls + 1
           /\ oob' = (\/ oob
                      \/ ReadsPastEnd(current_imu_data_buffer_, t_now)
                      \/ ReadsPastEnd(total_imu_data_buffer_,
                                      imu_state_j.stamp))
           /\ UNCHANGED <<ub, pushed, rejectedFirst>>

\* the order in which UpdateGraph asks the graph for the anchor's variables
FetchOrder == <<"position", "orientation", "velocity", "gyrobias", "accelbias">>

\* how many of them are fetched before getVariable throws std::out_of_range
RECURSIVE Fetched(_, _)
Fetched(graph, n) ==
  IF n > Len(FetchOrder) \/ FetchOrder[n] \notin DOMAIN graph THEN n - 1
  ELSE Fetched(graph, n + 1)

\* ImuPreintegration::UpdateGraph
UpdateGraph(graph_msg) ==
  /\ ~ub
  /\ nCalls < MaxCalls
  /\ nCalls' = nCalls + 1
  /\ LET k == Fetched(graph_msg, 1)
         s1 == IF k >= 1 THEN [imu_state_i_ EXCEPT !.p = graph_msg["position"]]
               ELSE imu_state_i_
         s2 == IF k >= 2 THEN [s1 EXCEPT !.q = graph_msg["orientation"]] ELSE s1
         s3 == IF k >= 3 THEN [s2 EXCEPT !.v = graph_msg["velocity"]] ELSE s2
         s4 == IF k >= 4 THEN [s3 EXCEPT !.bg = graph_msg["gyrobias"]] ELSE s3
         s5 == IF k >= 5 THEN [s4 EXCEPT !.ba = graph_msg["accelbias"]] ELSE s4
     IN /\ imu_state_i_' = s5
        /\ IF k = 5
             THEN /\ current_imu_data_buffer_' = total_imu_data_buffer_
                  /\ imu_state_k_' = s5
             ELSE UNCHANGED <<current_imu_data_buffer_, imu_state_k_>>
        /\ last' = [op |-> "UpdateGraph", ok |-> (k = 5)]
  /\ tx' = NullTx
  /\ pose_out' = NoPose
  /\ UNCHANGED <<total_imu_data_buffer_, pre_integrator_ij_data, first_window_,
                 oob, ub, pushed, nTx, priorAt, rejectedFirst>>

(***************************************************************************)
(* Part II: VisualInertialOdom, the visual-inertial front-end              *)
(* (visual_inertial_odom.cpp).  The sensor model is built with one         *)
(* callback thread, so processImage and processIMU run one at a time.      *)
(* Stamps are whole seconds.                                               *)
(***************************************************************************)

MaxImages == 4      \* image messages delivered
MaxImuMsgs == 2     \* IMU messages delivered
MaxMsgStamp == 5    \* largest header stamp of a message

MsgStamps == 1..MaxMsgStamp

VARIABLES
  image_buffer_,      \* std::queue of image stamps
  imu_buffer_,        \* std::queue of IMU messages [t, id]
  initialized,        \* initializer_->Initialized()
  cur_kf_time_,
  keyframes_,
  added_since_kf_,
  tracker_images,     \* images given to tracker_->AddImage, each with the
                      \* number of IMU messages forwarded before it
  imu_forwarded,      \* destination of each forwarded IMU message, in order
  odom_published,     \* poses published on the odometry topic
  local_graph,        \* initializer_->GetGraph() once it has succeeded
  sent_transactions,  \* what sendTransaction was called with, in order
  initializer_keyframes_,   \* the initializer's own keyframes_ vector
  initializer_imu_buffer_,  \* the initializer's own imu_buffer_ queue
  img_arrived,        \* stamps of the delivered image messages
  imu_arrived         \* stamps of the delivered IMU messages

vioVars ==
  <<image_buffer_, imu_buffer_, initialized, cur_kf_time_, keyframes_,
    added_since_kf_, tracker_images, imu_forwarded, odom_published,
    local_graph, sent_transactions, initializer_keyframes_,
    initializer_imu_buffer_, img_arrived, imu_arrived>>

\* parameters of camera_params_, read from the parameter server
keyframe_min_time_in_seconds == 2
window_size == 3
keyframe_parallax == 1
keyframe_tracks_drop == 2

\* spacing of candidate keyframes while initializing: toSec() >= 1.0
InitKeyframeSpacing == 1

\* header.stamp read through front() of an empty queue: any stamp; a queue
\* that holds a message is never read that way
StaleStamps(buf) == IF buf = <<>> THEN 0..MaxMsgStamp ELSE {0}

\* stamps a stream may deliver next: each stream is monotonic
NextStamps(arrived) ==
  {t \in MsgStamps : arrived = <<>> \/ t >= arrived[Len(arrived)]}

\* the local graph the initializer has built when it succeeds: landmarks and
\* poses with visual constraints, with or without the IMU states and the
\* inertial constraints between them; a variable is named by its type
EmptyGraph == [variables |-> {}, constraints |-> {}]
PoseTypes == {"Position3D", "Orientation3DStamped", "Position3DStamped"}
ImuStateTypes ==
  {"VelocityLinear3DStamped", "GyroscopeBias3DStamped",
   "AccelerationBias3DStamped"}
VisualConstraint == [source |-> "visual", involves |-> PoseTypes]
InertialConstraint ==
  [source |-> "inertial",
   involves |-> ImuStateTypes
                  \cup {"Orientation3DStamped", "Position3DStamped"}]
InitGraphs ==
  {[variables |-> PoseTypes, constraints |-> {VisualConstraint}],
   [variables |-> PoseTypes \cup ImuStateTypes,
    constraints |-> {VisualConstraint, InertialConstraint}]}

\* SendInitializationGraph: landmarks, orientations and positions go through
\* the visual map into the transaction, every constraint is cloned into it
SendInitializationGraph(init_graph) ==
  [variables |-> {v \in init_graph.variables : v \in PoseTypes},
   constraints |-> init_graph.constraints]

\* the initializer records the candidate stamp behind the ones it already
\* holds; nothing else in it is written before it reports its result
AddKeyframeRestart(keyframes, cur_time) == <<cur_time>>

AddKeyframe(keyframes, cur_time) == Append(keyframes, cur_time)

\* the initializer queues each IMU message it is given
AddIMU(buffer, msgs) == buffer \o msgs

VioInit ==
  /\ image_buffer_ = <<>>
  /\ imu_buffer_ = <<>>
  /\ initialized = FALSE
  /\ cur_kf_time_ = 0
  /\ keyframes_ = <<>>
  /\ added_since_kf_ = 0
  /\ tracker_images = <<>>
  /\ imu_forwarded = <<>>
  /\ odom_published = <<>>
  /\ local_graph = EmptyGraph
  /\ sent_transactions = <<>>
  /\ initializer_keyframes_ = <<>>
  /\ initializer_imu_buffer_ = <<>>
  /\ img_arrived = <<>>
  /\ imu_arrived = <<>>

\* what the tracker and the visual map hold about one image: how many of its
\* landmarks are triangulated, how many of its landmarks are also seen in the
\* last keyframe, and the pixel distance each of those has moved
MaxTriangulated == 3
FrameData ==
  [triangulated : 1..MaxTriangulated, matched : 0..1, moved : {0, 2}]

\* the tracker and the map are only consulted once the front-end is initialized
FrameDataRead ==
  IF initialized THEN FrameData
  ELSE {[triangulated |-> 1, matched |-> 0, moved |-> 0]}

\* a double that is not a number; every comparison with it is false
NaN == 0 - 1
Greater(x, y) == x # NaN /\ y # NaN /\ x > y

\* total_parallax / (double)num_matches over the matched landmarks
ComputeAvgParallax(f) ==
  IF f.matched = 0 THEN NaN ELSE (f.matched * f.moved) \div f.matched

\* the same decision without the window term
IsKeyframeNoWindow(img_time, f) ==
  /\ img_time - cur_kf_time_ >= keyframe_min_time_in_seconds
  /\ \/ Greater(ComputeAvgParallax(f), keyframe_parallax)
     \/ f.triangulated < keyframe_tracks_drop

\* the same decision without the minimum time since the last keyframe
IsKeyframeAnyTime(img_time, f) ==
  \/ Greater(ComputeAvgParallax(f), keyframe_parallax)
  \/ f.triangulated < keyframe_tracks_drop
  \/ added_since_kf_ = window_size - 1

IsKeyframe(img_time, f) ==
  IF img_time - cur_kf_time_ >= keyframe_min_time_in_seconds
    THEN IF \/ Greater(ComputeAvgParallax(f), keyframe_parallax)
            \/ f.triangulated < keyframe_tracks_drop
           THEN TRUE
           ELSE added_since_kf_ = window_size - 1
    ELSE FALSE

\* LocalizeFrame: the pose refined from the 2D-3D correspondences of the
\* triangulated landmarks, or Eigen::Matrix4d::Zero() when there are fewer
\* than 3 of them
MinCorrespondences == 3
LocalizeFrame(f) ==
  IF f.triangulated < MinCorrespondences THEN "Zero" ELSE "T_WORLD_CAMERA"

\* a mistaken guard: the IMU queue need only have reached the image stamp
ImuReached(imu_time, img_time) == imu_time >= img_time

\* imu_time > img_time: the IMU queue's front is already past the image
ImuAhead(imu_time, img_time) == imu_time > img_time

processImage(t, g, f) ==
  LET buffer == Append(image_buffer_, t)
      imu_time == IF imu_buffer_ = <<>> THEN g ELSE Head(imu_buffer_).t
      img_time == Head(buffer)
  IN
  /\ Len(img_arrived) < MaxImages
  /\ img_arrived' = Append(img_arrived, t)
  /\ \/ /\ ~(ImuAhead(imu_time, img_time) /\ imu_buffer_ # <<>>)
        /\ image_buffer_' = buffer
        /\ UNCHANGED <<initialized, cur_kf_time_, keyframes_, added_since_kf_,
                       tracker_images, odom_published, local_graph,
                       sent_transactions, initializer_keyframes_>>
     \/ /\ ImuAhead(imu_time, img_time) /\ imu_buffer_ # <<>>
        /\ tracker_images' =
             Append(tracker_images,
                    [t |-> img_time, nfwd |-> Len(imu_forwarded)])
        /\ image_buffer_' = Tail(buffer)
        /\ \/ /\ ~initialized
              /\ img_time - cur_kf_time_ < InitKeyframeSpacing
              /\ UNCHANGED <<initialized, cur_kf_time_, keyframes_,
                             added_since_kf_, odom_published, local_graph,
                             sent_transactions, initializer_keyframes_>>
           \/ /\ ~initialized
              /\ img_time - cur_kf_time_ >= InitKeyframeSpacing
              /\ keyframes_' = Append(keyframes_, img_time)
              /\ cur_kf_time_' = img_time
              /\ initializer_keyframes_' =
                   AddKeyframe(initializer_keyframes_, img_time)
              /\ \/ /\ initialized' = FALSE    \* initializer_->AddImage fails
                    /\ UNCHANGED <<local_graph, sent_transactions>>
                 \/ \E init_graph \in InitGraphs :    \* ... or succeeds
                      /\ initialized' = TRUE
                      /\ local_graph' = init_graph
                      /\ sent_transactions' =
                           Append(sent_transactions,
                                  SendInitializationGraph(init_graph))
              /\ UNCHANGED <<added_since_kf_, odom_published>>
           \/ /\ initialized
              /\ odom_published' =
                   Append(odom_published,
                          [t |-> img_time, pose |-> LocalizeFrame(f)])
              /\ IF IsKeyframe(img_time, f)
                   THEN /\ cur_kf_time_' = img_time
                        /\ keyframes_' = Append(keyframes_, img_time)
                        /\ added_since_kf_' = 0
                   ELSE /\ added_since_kf_' = added_since_kf_ + 1
                        /\ UNCHANGED <<cur_kf_time_, keyframes_>>
              /\ UNCHANGED <<initialized, local_graph, sent_transactions,
                             initializer_keyframes_>>
  /\ UNCHANGED <<imu_buffer_, imu_forwarded, imu_arrived,
                 initializer_imu_buffer_>>

\* how many messages the loop of processIMU takes off the front of buf
RECURSIVE LeadingUpTo(_, _)
LeadingUpTo(buf, img_time) ==
  IF buf # <<>> /\ Head(buf).t <= img_time
    THEN 1 + LeadingUpTo(Tail(buf), img_time)
    ELSE 0

processIMU(t, g) ==
  LET buffer == Append(imu_buffer_, [t |-> t, id |-> Len(imu_arrived) + 1])
      img_time == IF image_buffer_ = <<>> THEN g ELSE Head(image_buffer_)
      n == LeadingUpTo(buffer, img_time)
      dest == IF initialized THEN "preintegrator" ELSE "initializer"
  IN
  /\ Len(imu_arrived) < MaxImuMsgs
  /\ imu_arrived' = Append(imu_arrived, t)
  /\ imu_forwarded' = imu_forwarded \o [k \in 1..n |-> dest]
  /\ imu_buffer_' = SubSeq(buffer, n + 1, Len(buffer))
  /\ initializer_imu_buffer_' =
       IF initialized THEN initializer_imu_buffer_
       ELSE AddIMU(initializer_imu_buffer_, SubSeq(buffer, 1, n))
  /\ UNCHANGED <<image_buffer_, initialized, cur_kf_time_, keyframes_,
                 added_since_kf_, tracker_images, odom_published, local_graph,
                 sent_transactions, initializer_keyframes_, img_arrived>>


(***************************************************************************)
(* Part III: GlobalMap, the submaps of the global mapper.  Positions are   *)
(* taken along one axis, in metres, so the norm of a difference is its     *)
(* absolute value.  The repository holds two versions of the class: the    *)
(* one that keeps online_submaps_ and the one that keeps submaps_.         *)
(***************************************************************************)

MaxMeasurements == 4
PositionStep == 5
MaxCells == 5
TrajectoryEnd == 50
MaxCandidates == 2
MaxRequests == 3
MaxUpdates == 1
MaxOffline == 1
MaxOnline == 3

VARIABLES
  online_submaps_,   \* submaps of the first version, oldest first
  submaps_,          \* submaps of the second version, oldest first
  new_transaction,   \* what the last AddMeasurement or TriggerLoopClosure
                     \* returned
  map_fault,         \* "none", or what an access outside submaps_ or through
                     \* a null pointer has done
  nAdded,            \* calls of AddMeasurement so far
  spacing,           \* 0, or the spacing of the trajectory being fed
  offline_submaps_,  \* number of submaps loaded from an offline map
  active_submap_id_,
  active_submap_type_,
  T_WORLDLM_WORLDOFF_found_,
  T_WORLDLM_WORLDOFF_,
  reloc_reply,       \* what the last ProcessRelocRequest returned and left in
                     \* submap_msg, and the alignment its offline search used
  global_map_updates_,
  anchors_returned,  \* ids of the submaps whose pose variables a returned
                     \* transaction has carried
  lc_emitted,        \* (match, query) pairs a returned loop closure carried
  lc_repeated,       \* ... and the ones carried more than once
  served,            \* the submap the last successful ProcessRelocRequest
                     \* has handed out, until a loop closure resets the
                     \* active submap
  nRequests          \* calls of TriggerLoopClosure and ProcessRelocRequest

mapVars ==
  <<online_submaps_, submaps_, new_transaction, map_fault, nAdded, spacing,
    offline_submaps_, active_submap_id_, active_submap_type_,
    T_WORLDLM_WORLDOFF_found_, T_WORLDLM_WORLDOFF_, reloc_reply,
    global_map_updates_, anchors_returned, lc_emitted, lc_repeated,
    served, nRequests>>

\* the members AddMeasurement does not write
relocVars ==
  <<offline_submaps_, active_submap_id_, T_WORLDLM_WORLDOFF_found_,
    T_WORLDLM_WORLDOFF_, reloc_reply, global_map_updates_, nRequests>>

\* params_.submap_size, read from the configuration file
submap_size == 10

\* baselink positions a measurement may come with
Positions == {k * PositionStep : k \in 0..MaxCells}

\* spacings of a uniformly spaced trajectory that divide submap_size
Spacings == {s \in 1..submap_size : submap_size % s = 0}

\* (a - b).norm() along the axis
Norm(a, b) == IF a >= b THEN a - b ELSE b - a

\* Submap(stamp, T_WORLD_BASELINK, ...): T_WORLD_SUBMAP_INIT is the pose it is
\* constructed with; measurements are the positions stored in it
Submap(T_WORLD_BASELINK) ==
  [T_WORLD_SUBMAP_INIT |-> T_WORLD_BASELINK, measurements |-> {}]

\* anchor position of the submap with (0-based) id k
Anchor(submaps, k) == submaps[k + 1].T_WORLD_SUBMAP_INIT

\* the same test with a closed ball
WithinOrAt(submaps, k, t_WORLD_FRAME) ==
  Norm(t_WORLD_FRAME, Anchor(submaps, k)) <= submap_size

\* (t_WORLD_FRAME - t_WORLD_SUBMAP).norm() < params_.submap_size
Within(submaps, k, t_WORLD_FRAME) ==
  Norm(t_WORLD_FRAME, Anchor(submaps, k)) < submap_size

\* GetSubmapId, the same code in both versions: the id is the size of the
\* list when a new submap is needed
GetSubmapId(submaps, t_WORLD_FRAME) ==
  LET size == Len(submaps) IN
  IF size = 0 THEN 0
  ELSE IF size = 1
    THEN IF Within(submaps, size - 1, t_WORLD_FRAME) THEN 0 ELSE 1
    ELSE IF Within(submaps, size - 2, t_WORLD_FRAME) THEN size - 2
         ELSE IF Within(submaps, size - 1, t_WORLD_FRAME) THEN size - 1
         ELSE size

\* a transaction: pose variables named by submap id, priors, constraints
NullTransaction ==
  [null |-> TRUE, variables |-> {}, priors |-> {}, constraints |-> {}]

\* AddPoseConstraint between the poses of two submaps
PoseConstraint(previous, current, covariance, source) ==
  [from |-> previous, to |-> current, covariance |-> covariance,
   source |-> source]

\* a transaction that carries no pose variable
InitiateWithoutVariables(submaps) ==
  [null |-> FALSE, variables |-> {}, priors |-> {}, constraints |-> {}]

\* first version: prior on the first submap, otherwise a constraint to the
\* previous one
InitiateNewSubmapPose(submaps) ==
  LET current == Len(submaps) - 1 IN
  IF Len(submaps) = 1
    THEN [null |-> FALSE, variables |-> {current},
          priors |-> {[on |-> current, source |-> "GlobalMap"]},
          constraints |-> {}]
    ELSE [null |-> FALSE, variables |-> {current},
          priors |-> {},
          constraints |->
            {PoseConstraint(current - 1, current,
                            "local_mapper_covariance", "GlobalMap")}]

\* second version: submaps_[size - 2] is read and constrained against
\* whatever the size is
InitiateNewSubmapPose2(submaps) ==
  LET current == Len(submaps) - 1 IN
  [null |-> FALSE, variables |-> {current},
   priors |-> {},
   constraints |->
     {PoseConstraint(Len(submaps) - 2, current,
                     "local_mapper_covariance", "LOCALMAPPER")}]

\* The reply of ProcessRelocRequest: the value returned, what FillSubmapMsg
\* has put in submap_msg (NoSubmap when it was not called) and the alignment
\* the offline search was made with
\* T_WORLDLM_WORLDOFF_ before an alignment is computed
Identity == [request |-> 0, submap |-> 0]

NoSubmap == [type |-> "NONE", index |-> 0, T_WORLDLM_WORLDOFF |-> Identity]
NoReply ==
  [returned |-> FALSE, submap_msg |-> NoSubmap, searched_with |-> Identity]

\* what FindRelocCandidates may leave in matched_indices for n submaps: up to
\* len distinct indices in any order, proper or not; Ts_MATCH_QUERY holds at
\* the same place the estimate computed for that index
SearchOutputs(n, len) ==
  UNION {{s \in [1..k -> 0..(n - 1)] :
            \A a \in 1..k : \A b \in 1..k : a < b => s[a] # s[b]} :
         k \in 0..len}

\* the constraint reloc_refinement_->GenerateTransaction(match, query,
\* estimate) returns when it succeeds; estimate names the match index the
\* estimate was computed for
LoopClosureConstraint(match, query, estimate) ==
  [from |-> match, to |-> query, covariance |-> "reloc_covariance",
   source |-> "RelocRefinement", estimate |-> estimate]

\* matched_indices_filtered
Filtered(matched_indices, query_index) ==
  LET Keep(i) == ~(i = query_index \/ i = query_index - 1)
  IN SelectSeq(matched_indices, Keep)

\* GlobalMap::RunLoopClosure of the first version: nullptr when there is one
\* submap or nothing is left after the first filter, otherwise a transaction
\* with what the refinements of the matches left by the second filter return;
\* the estimate is taken from Ts_MATCH_QUERY at the place of the match in the
\* filtered list
RunLoopClosure(submaps, query_index, matched_indices, refined) ==
  LET filtered == Filtered(matched_indices, query_index) IN
  IF Len(submaps) = 1 \/ filtered = <<>>
    THEN NullTransaction
    ELSE [null |-> FALSE, variables |-> {}, priors |-> {},
          constraints |->
            {LoopClosureConstraint(filtered[i], query_index,
                                   matched_indices[i]) :
               i \in {i \in 1..Len(filtered) :
                        /\ filtered[i] # query_index + 1
                        /\ filtered[i] # query_index - 1
                        /\ filtered[i] \in refined}}]

\* GlobalMap::FindLoopClosures of the second version: every match goes to the
\* refinement
FindLoopClosures(submaps, matched_indices, refined) ==
  IF matched_indices = <<>>
    THEN NullTransaction
    ELSE [null |-> FALSE, variables |-> {}, priors |-> {},
          constraints |->
            {LoopClosureConstraint(matched_indices[i], Len(submaps) - 2,
                                   matched_indices[i]) :
               i \in {i \in 1..Len(matched_indices) :
                        matched_indices[i] \in refined}}]

\* ... and what it gets back is merged through the pointer unchecked: a
\* refinement that returns nullptr has it dereferenced
DereferencesNull(matched_indices, refined) ==
  \E i \in 1..Len(matched_indices) : matched_indices[i] \notin refined

\* new_transaction->merge(*reloc_transaction) when reloc_transaction is not
\* nullptr
Merge(transaction, reloc_transaction) ==
  IF reloc_transaction.null THEN transaction
  ELSE [transaction EXCEPT
          !.variables = @ \cup reloc_transaction.variables,
          !.priors = @ \cup reloc_transaction.priors,
          !.constraints = @ \cup reloc_transaction.constraints]

\* the (match, query) pairs of the loop closure constraints of a transaction
Pairs(transaction) ==
  {<<c.from, c.to>> :
     c \in {c \in transaction.constraints : c.source = "RelocRefinement"}}

\* num_constraints > 0 resets the active submap
ActiveTypeAfter(reloc_transaction) ==
  IF reloc_transaction.constraints # {} THEN "NONE" ELSE active_submap_type_

\* the submap handed out stays the active one unless the loop closure resets it
ServedAfter(reloc_transaction) ==
  IF reloc_transaction.constraints # {} THEN NoSubmap ELSE served

\* online_submaps_.at(submap_id)->Add...Measurement(..., T_WORLD_BASELINK)
Stored(submaps, submap_id, T_WORLD_BASELINK, has_data) ==
  IF has_data
    THEN [submaps EXCEPT ![submap_id + 1].measurements =
                           @ \cup {T_WORLD_BASELINK}]
    ELSE submaps

\* the list after AddMeasurement: a submap is pushed when the id is the size
Measured(submaps, T_WORLD_BASELINK, has_data) ==
  LET submap_id == GetSubmapId(submaps, T_WORLD_BASELINK) IN
  Stored(IF submap_id = Len(submaps)
           THEN Append(submaps, Submap(T_WORLD_BASELINK))
           ELSE submaps,
         submap_id, T_WORLD_BASELINK, has_data)

\* GlobalMap::AddMeasurement of the first version; has_data says whether the
\* camera or the lidar measurement is non-empty, matched_indices and refined
\* what the candidate search and the refinements of RunLoopClosure do
AddMeasurement(T_WORLD_BASELINK, has_data, matched_indices, refined) ==
  LET submap_id == GetSubmapId(online_submaps_, T_WORLD_BASELINK)
      created == Append(online_submaps_, Submap(T_WORLD_BASELINK))
      reloc_transaction ==
        RunLoopClosure(created, Len(created) - 2, matched_indices, refined)
  IN
  /\ map_fault # "crashed"
  /\ Len(created) = 1 => (matched_indices = <<>> /\ refined = {})
  /\ nAdded' = nAdded + 1
  /\ online_submaps_' = Measured(online_submaps_, T_WORLD_BASELINK, has_data)
  /\ IF submap_id = Len(online_submaps_)
       THEN /\ new_transaction' =
                 Merge(InitiateNewSubmapPose(created), reloc_transaction)
            /\ active_submap_type_' = ActiveTypeAfter(reloc_transaction)
            /\ served' = ServedAfter(reloc_transaction)
            /\ anchors_returned' =
                 anchors_returned \cup InitiateNewSubmapPose(created).variables
            /\ lc_emitted' = lc_emitted \cup Pairs(reloc_transaction)
            /\ lc_repeated' =
                 lc_repeated \cup (lc_emitted \cap Pairs(reloc_transaction))
       ELSE /\ matched_indices = <<>>
            /\ refined = {}
            /\ new_transaction' = NullTransaction
            /\ UNCHANGED <<active_submap_type_, anchors_returned, lc_emitted,
                           lc_repeated, served>>
  /\ UNCHANGED <<submaps_, map_fault, spacing, relocVars>>

\* GlobalMap::AddMeasurement of the second version.  On the first submap
\* InitiateNewSubmapPose reads submaps_[size - 2] past the vector, and a
\* refinement that fails has its null result dereferenced: the process dies
\* there, or goes on with what it has read.
AddMeasurement2(T_WORLD_BASELINK, has_data, matched_indices, refined) ==
  LET submap_id == GetSubmapId(submaps_, T_WORLD_BASELINK)
      created == Append(submaps_, Submap(T_WORLD_BASELINK))
      loop_closure_transaction ==
        FindLoopClosures(created, matched_indices, refined)
      fault == IF DereferencesNull(matched_indices, refined)
                 THEN "null_dereferenced"
                 ELSE IF Len(created) = 1 THEN "read_past_end" ELSE map_fault
  IN
  /\ map_fault # "crashed"
  /\ Len(created) = 1 => (matched_indices = <<>> /\ refined = {})
  /\ nAdded' = nAdded + 1
  /\ IF submap_id = Len(submaps_)
       THEN \/ /\ Len(created) = 1 \/ DereferencesNull(matched_indices, refined)
               /\ map_fault' = "crashed"
               /\ submaps_' = created
               /\ UNCHANGED new_transaction
            \/ /\ map_fault' = fault
               /\ submaps_' = Measured(submaps_, T_WORLD_BASELINK, has_data)
               /\ new_transaction' =
                    Merge(InitiateNewSubmapPose2(created),
                          loop_closure_transaction)
       ELSE /\ matched_indices = <<>>
            /\ refined = {}
            /\ submaps_' = Measured(submaps_, T_WORLD_BASELINK, has_data)
            /\ new_transaction' = NullTransaction
            /\ UNCHANGED map_fault
  /\ UNCHANGED <<online_submaps_, spacing, active_submap_type_,
                 anchors_returned, lc_emitted, lc_repeated, served,
                 relocVars>>

\* GlobalMap::TriggerLoopClosure: the latest submap is the query
TriggerLoopClosure(matched_indices, refined) ==
  LET reloc_transaction ==
        IF Len(online_submaps_) < 2 THEN NullTransaction
        ELSE RunLoopClosure(online_submaps_, Len(online_submaps_) - 1,
                            matched_indices, refined)
  IN
  /\ map_fault # "crashed"
  /\ nRequests' = nRequests + 1
  /\ Len(online_submaps_) < 2 => (matched_indices = <<>> /\ refined = {})
  /\ new_transaction' = reloc_transaction
  /\ active_submap_type_' = ActiveTypeAfter(reloc_transaction)
  /\ served' = ServedAfter(reloc_transaction)
  /\ lc_emitted' = lc_emitted \cup Pairs(reloc_transaction)
  /\ lc_repeated' = lc_repeated \cup (lc_emitted \cap Pairs(reloc_transaction))
  /\ UNCHANGED <<online_submaps_, submaps_, map_fault, nAdded, spacing,
                 offline_submaps_, active_submap_id_,
                 T_WORLDLM_WORLDOFF_found_, T_WORLDLM_WORLDOFF_, reloc_reply,
                 global_map_updates_, anchors_returned>>

\* GlobalMap::UpdateSubmapPoses: every online submap takes its pose from the
\* graph (T_WORLD_SUBMAP, which nothing modelled here reads; the anchor
\* T_WORLD_SUBMAP_INIT stays) and the update is counted
UpdateSubmapPoses ==
  /\ map_fault # "crashed"
  /\ global_map_updates_' = global_map_updates_ + 1
  /\ UNCHANGED <<online_submaps_, submaps_, new_transaction, map_fault, nAdded,
                 spacing, offline_submaps_, active_submap_id_,
                 active_submap_type_, T_WORLDLM_WORLDOFF_found_,
                 T_WORLDLM_WORLDOFF_, reloc_reply, anchors_returned,
                 lc_emitted, lc_repeated, served, nRequests>>

\* GlobalMap::SetOfflineSubmaps
SetOfflineSubmaps(n) ==
  /\ map_fault # "crashed"
  /\ offline_submaps_' = n
  /\ UNCHANGED <<online_submaps_, submaps_, new_transaction, map_fault, nAdded,
                 spacing, active_submap_id_, active_submap_type_,
                 T_WORLDLM_WORLDOFF_found_, T_WORLDLM_WORLDOFF_, reloc_reply,
                 global_map_updates_, anchors_returned, lc_emitted,
                 lc_repeated, served, nRequests>>

\* the loop over the candidates without the test against the active submap
RECURSIVE FirstRefinedAny(_, _, _, _)
FirstRefinedAny(matched_indices, refined, type, i) ==
  IF i > Len(matched_indices)
    THEN [outcome |-> "exhausted", index |-> 0]
  ELSE IF matched_indices[i] \in refined
    THEN [outcome |-> "found", index |-> matched_indices[i]]
  ELSE FirstRefinedAny(matched_indices, refined, type, i + 1)

\* the loop over the candidates of one search, from the i-th on: it returns
\* false at a candidate that is the active submap of this type, stops at the
\* first candidate whose refinement succeeds, and otherwise runs to the end
RECURSIVE FirstRefined(_, _, _, _)
FirstRefined(matched_indices, refined, type, i) ==
  IF i > Len(matched_indices)
    THEN [outcome |-> "exhausted", index |-> 0]
  ELSE IF active_submap_id_ = matched_indices[i] /\ active_submap_type_ = type
    THEN [outcome |-> "no_update", index |-> matched_indices[i]]
  ELSE IF matched_indices[i] \in refined
    THEN [outcome |-> "found", index |-> matched_indices[i]]
  ELSE FirstRefined(matched_indices, refined, type, i + 1)

\* T_WORLDLM_QUERY * inv(T_SUBMAP_QUERY_refined) * inv(T_WORLD_SUBMAP): named
\* by the request and the submap it is computed from
Alignment(request, submap_index) ==
  [request |-> request, submap |-> submap_index]

\* the alignment computed at every successful offline refinement
Realigned(request, submap_index) == Alignment(request, submap_index)

\* if (!T_WORLDLM_WORLDOFF_found_) T_WORLDLM_WORLDOFF_ = ...
Aligned(request, submap_index) ==
  IF T_WORLDLM_WORLDOFF_found_ THEN T_WORLDLM_WORLDOFF_
  ELSE Alignment(request, submap_index)

\* GlobalMap::ProcessRelocRequest: off and on are what the candidate search
\* over the offline and the online submaps leaves in matched_indices,
\* off_refined and on_refined the submaps whose GetRefinedPose succeeds
ProcessRelocRequest(off, off_refined, on, on_refined) ==
  LET offline == IF offline_submaps_ = 0
                   THEN [outcome |-> "exhausted", index |-> 0]
                   ELSE FirstRefined(off, off_refined, "OFFLINE", 1)
      online == IF online_submaps_ = <<>>
                  THEN [outcome |-> "exhausted", index |-> 0]
                  ELSE FirstRefined(on, on_refined, "ONLINE", 1)
      aligned == Aligned(nRequests + 1, offline.index)
      searched_with == IF offline_submaps_ = 0 THEN Identity
                       ELSE T_WORLDLM_WORLDOFF_
  IN
  /\ map_fault # "crashed"
  /\ nRequests' = nRequests + 1
  /\ offline_submaps_ = 0 => (off = <<>> /\ off_refined = {})
  /\ (online_submaps_ = <<>> \/ offline.outcome # "exhausted")
       => (on = <<>> /\ on_refined = {})
  /\ IF offline.outcome = "no_update"
       THEN /\ reloc_reply' = [NoReply EXCEPT !.searched_with = searched_with]
            /\ UNCHANGED <<active_submap_id_, active_submap_type_, served,
                           T_WORLDLM_WORLDOFF_found_, T_WORLDLM_WORLDOFF_>>
     ELSE IF offline.outcome = "found"
       THEN /\ T_WORLDLM_WORLDOFF_' = aligned
            /\ T_WORLDLM_WORLDOFF_found_' = TRUE
            /\ reloc_reply' =
                 [returned |-> TRUE,
                  submap_msg |-> [type |-> "OFFLINE", index |-> offline.index,
                                  T_WORLDLM_WORLDOFF |-> aligned],
                  searched_with |-> searched_with]
            /\ active_submap_id_' = offline.index
            /\ active_submap_type_' = "OFFLINE"
            /\ served' = [type |-> "OFFLINE", index |-> offline.index,
                          T_WORLDLM_WORLDOFF |-> aligned]
     ELSE IF online.outcome = "found"
       THEN /\ reloc_reply' =
                 [returned |-> TRUE,
                  submap_msg |-> [type |-> "ONLINE", index |-> online.index,
                                  T_WORLDLM_WORLDOFF |-> Identity],
                  searched_with |-> searched_with]
            /\ active_submap_id_' = online.index
            /\ active_submap_type_' = "OFFLINE"
            /\ served' = [type |-> "ONLINE", index |-> online.index,
                          T_WORLDLM_WORLDOFF |-> Identity]
            /\ UNCHANGED <<T_WORLDLM_WORLDOFF_found_, T_WORLDLM_WORLDOFF_>>
     ELSE /\ reloc_reply' = [NoReply EXCEPT !.searched_with = searched_with]
          /\ UNCHANGED <<active_submap_id_, active_submap_type_, served,
                         T_WORLDLM_WORLDOFF_found_, T_WORLDLM_WORLDOFF_>>
  /\ UNCHANGED <<online_submaps_, submaps_, new_transaction, map_fault, nAdded,
                 spacing, offline_submaps_, global_map_updates_,
                 anchors_returned, lc_emitted, lc_repeated>>

\* a caller starts feeding a straight trajectory from 0 to TrajectoryEnd with
\* poses s apart to a map that has received nothing yet
StartTrajectory(s) ==
  /\ spacing = 0
  /\ nAdded = 0
  /\ nRequests = 0
  /\ spacing' = s
  /\ UNCHANGED <<online_submaps_, submaps_, new_transaction, map_fault,
                 nAdded, offline_submaps_, active_submap_id_,
                 active_submap_type_, T_WORLDLM_WORLDOFF_found_,
                 T_WORLDLM_WORLDOFF_, reloc_reply, global_map_updates_,
                 anchors_returned, lc_emitted, lc_repeated, served, nRequests>>

\* the next pose of the trajectory, with a measurement, goes to AddMeasurement
FeedTrajectory(matched_indices, refined) ==
  /\ spacing > 0
  /\ nAdded * spacing <= TrajectoryEnd
  /\ AddMeasurement(nAdded * spacing, TRUE, matched_indices, refined)

\* the map after construction; the members the constructor does not set have
\* the initial values of their declarations
MapInit ==
  /\ online_submaps_ = <<>>
  /\ submaps_ = <<>>
  /\ new_transaction = NullTransaction
  /\ map_fault = "none"
  /\ nAdded = 0
  /\ spacing = 0
  /\ offline_submaps_ = 0
  /\ active_submap_id_ = 0
  /\ active_submap_type_ = "NONE"
  /\ T_WORLDLM_WORLDOFF_found_ = FALSE
  /\ T_WORLDLM_WORLDOFF_ = Identity
  /\ reloc_reply = NoReply
  /\ global_map_updates_ = 0
  /\ anchors_returned = {}
  /\ lc_emitted = {}
  /\ lc_repeated = {}
  /\ served = NoSubmap
  /\ nRequests = 0


\* ---------------------------------------------------------------------------
\* Part IV: multi-scan registration and the pose transactions it returns.
\* The transaction operations are those of Pose3DStampedTransaction; the body
\* of MultiScanRegistration::RegisterNewScan is not among the sources, only
\* its tests and its callers are, so the registration is modelled from its
\* specification (section 4.3.1) and agrees with the tests.
\* ---------------------------------------------------------------------------

MaxNeighbors == 2
MaxScanStamp == 4
MaxLag == 2
MaxScans == 4
MaxReapplied == 2

VARIABLES
  num_neighbors,      \* Params::num_neighbors, 0 until the registration is
                      \* constructed
  fix_first_scan,     \* Params::fix_first_scan
  lag_duration,       \* Params::lag_duration
  reference_clouds_,  \* the window: stamps of the scans kept, newest first
  scan_transaction,   \* what the last RegisterNewScan(...).GetTransaction()
                      \* returned
  registered_scans,   \* stamps of the scans registered so far, newest first
  nScans,             \* calls of RegisterNewScan so far
  graph_,             \* the graph the returned transactions are applied to:
                      \* how many copies of each variable and constraint
                      \* it holds
  applied_,           \* the transactions applied to the graph so far
  nReapplied          \* applications of a transaction already applied

scanVars ==
  <<num_neighbors, fix_first_scan, lag_duration, reference_clouds_,
    scan_transaction, registered_scans, nScans, graph_, applied_,
    nReapplied>>

ScanStamps == 0..MaxScanStamp

Smaller(a, b) == IF a <= b THEN a ELSE b

\* Pose3DStampedTransaction(transaction_stamp): a fresh transaction, stamped
Pose3DStampedTransaction(transaction_stamp) ==
  [null |-> FALSE, stamp |-> transaction_stamp, variables |-> {},
   constraints |-> {}, involved_stamps |-> {}]

\* the null pointer GetTransaction returns
NullScanTransaction ==
  [null |-> TRUE, stamp |-> 0, variables |-> {}, constraints |-> {},
   involved_stamps |-> {}]

\* fuse_core::Transaction::empty
Empty(transaction) ==
  /\ transaction.variables = {}
  /\ transaction.constraints = {}
  /\ transaction.involved_stamps = {}

\* GetTransaction without the test for an empty transaction
GetTransactionUnchecked(transaction) == transaction

\* Pose3DStampedTransaction::GetTransaction
GetTransaction(transaction) ==
  IF Empty(transaction) THEN NullScanTransaction ELSE transaction

\* Pose3DStampedTransaction::AddPoseConstraint between the poses of two scans
AddPoseConstraint(transaction, stamp1, stamp2) ==
  [transaction EXCEPT
     !.constraints = @ \cup {[type |-> "RelativePose3DStamped",
                              from |-> stamp1, to |-> stamp2]}]

\* Pose3DStampedTransaction::AddPosePrior on the pose of a scan
AddPosePrior(transaction, stamp) ==
  [transaction EXCEPT
     !.constraints = @ \cup {[type |-> "AbsolutePose3DStamped",
                              from |-> stamp, to |-> stamp]}]

\* AddPoseVariables that adds the position only
AddPositionVariable(transaction, stamp) ==
  [transaction EXCEPT
     !.involved_stamps = @ \cup {stamp},
     !.variables = @ \cup {<<"position", stamp>>}]

\* Pose3DStampedTransaction::AddPoseVariables
AddPoseVariables(transaction, stamp) ==
  [transaction EXCEPT
     !.involved_stamps = @ \cup {stamp},
     !.variables = @ \cup {<<"position", stamp>>, <<"orientation", stamp>>}]

\* the scans a new scan is matched against: the most recent num_neighbors
Neighbors ==
  SubSeq(reference_clouds_, 1, Smaller(num_neighbors, Len(reference_clouds_)))

\* a constraint for each accepted match, from the i-th neighbour on
RECURSIVE AddAccepted(_, _, _, _, _)
AddAccepted(transaction, neighbors, rejected, stamp, i) ==
  IF i > Len(neighbors) THEN transaction
  ELSE IF neighbors[i] \in rejected
    THEN AddAccepted(transaction, neighbors, rejected, stamp, i + 1)
  ELSE AddAccepted(AddPoseConstraint(transaction, neighbors[i], stamp),
                   neighbors, rejected, stamp, i + 1)

\* scans older than lag_duration leave the window; 0 never drops
RemoveOldScans(clouds, stamp) ==
  IF lag_duration = 0 THEN clouds
  ELSE SelectSeq(clouds, LAMBDA s : stamp - s <= lag_duration)

\* the gating: an empty cloud, too little motion since the previous scan, or
\* every match with a neighbour rejected as an outlier
Refused(cloud_empty, passed_motion, rejected) ==
  \/ cloud_empty
  \/ reference_clouds_ # <<>> /\ ~passed_motion
  \/ Neighbors # <<>> /\ Range(Neighbors) \subseteq rejected

\* MultiScanRegistration(matcher, params)
MultiScanRegistration(n, fix, lag) ==
  /\ num_neighbors = 0
  /\ num_neighbors' = n
  /\ fix_first_scan' = fix
  /\ lag_duration' = lag
  /\ UNCHANGED <<reference_clouds_, scan_transaction, registered_scans,
                 nScans, graph_, applied_, nReapplied>>

\* RegisterNewScan(new_scan).GetTransaction(): rejected are the neighbours
\* whose match is rejected as an outlier
RegisterNewScan(stamp, cloud_empty, passed_motion, rejected) ==
  LET transaction == Pose3DStampedTransaction(stamp)
      first == reference_clouds_ = <<>>
      fixed == IF fix_first_scan /\ first
                 THEN AddPosePrior(transaction, stamp)
                 ELSE transaction
      matched == AddAccepted(fixed, Neighbors, rejected, stamp, 1)
      kept == <<stamp>> \o reference_clouds_
  IN
  /\ num_neighbors > 0
  /\ nScans' = nScans + 1
  /\ IF Refused(cloud_empty, passed_motion, rejected)
       THEN /\ scan_transaction' = GetTransaction(transaction)
            /\ UNCHANGED <<reference_clouds_, registered_scans>>
       ELSE /\ scan_transaction' =
                 GetTransaction(AddPoseVariables(matched, stamp))
            /\ reference_clouds_' =
                 RemoveOldScans(
                   SubSeq(kept, 1, Smaller(num_neighbors, Len(kept))), stamp)
            /\ registered_scans' = <<stamp>> \o registered_scans
  /\ UNCHANGED <<num_neighbors, fix_first_scan, lag_duration, graph_,
                 applied_, nReapplied>>

\* what an update adds to a collection that holds held: an element that is
\* there already is added once more
Appended(held, added) ==
  [e \in BagToSet(held) \cup added |->
     IF e \in added THEN CopiesIn(e, held) + 1 ELSE CopiesIn(e, held)]

\* what an update with the override flags set leaves in a collection that
\* holds held: an element of identical identity is replaced
Replaced(held, added) ==
  [e \in BagToSet(held) \cup added |->
     IF e \in BagToSet(held) THEN CopiesIn(e, held) ELSE 1]

\* an update that adds without looking for what the graph holds
UpdateAppending(graph, transaction) ==
  [variables |-> Appended(graph.variables, transaction.variables),
   constraints |-> Appended(graph.constraints, transaction.constraints)]

\* graph->update(*transaction)
Update(graph, transaction) ==
  [variables |-> Replaced(graph.variables, transaction.variables),
   constraints |-> Replaced(graph.constraints, transaction.constraints)]

\* if (transaction != nullptr) graph->update(*transaction)
UpdateGraphWith ==
  /\ ~scan_transaction.null
  /\ scan_transaction \notin applied_
  /\ graph_' = Update(graph_, scan_transaction)
  /\ applied_' = applied_ \cup {scan_transaction}
  /\ UNCHANGED <<num_neighbors, fix_first_scan, lag_duration,
                 reference_clouds_, scan_transaction, registered_scans,
                 nScans, nReapplied>>

\* a transaction that has been applied is applied once more
UpdateGraphAgain(transaction) ==
  /\ transaction \in applied_
  /\ graph_' = Update(graph_, transaction)
  /\ nReapplied' = nReapplied + 1
  /\ UNCHANGED <<num_neighbors, fix_first_scan, lag_duration,
                 reference_clouds_, scan_transaction, registered_scans,
                 nScans, applied_>>

ScanInit ==
  /\ num_neighbors = 0
  /\ fix_first_scan = FALSE
  /\ lag_duration = 0
  /\ reference_clouds_ = <<>>
  /\ scan_transaction = NullScanTransaction
  /\ registered_scans = <<>>
  /\ nScans = 0
  /\ graph_ = [variables |-> EmptyBag, constraints |-> EmptyBag]
  /\ applied_ = {}
  /\ nReapplied = 0


\* ---------------------------------------------------------------------------
\* Part V: saving a global map to a directory and loading it again, in the
\* two versions of GlobalMap.
\* ---------------------------------------------------------------------------

VARIABLES
  saved,    \* the directory SaveData has written: the version that wrote it,
            \* params.json as a function of its keys, and the submap
            \* directories by their number
  loaded,   \* the fresh instance after Load: what Load did, its params_ and
            \* its submaps
  resaved   \* the directory the loaded instance has written

saveVars == <<saved, loaded, resaved>>

\* a json document without keys
NoJson == [k \in {} |-> 0]

NoDirectory ==
  [exists |-> FALSE, version |-> 0, params |-> NoJson, submaps |-> <<>>]

NotLoaded == [status |-> "none", params |-> NoJson, submaps |-> <<>>]

\* the values params_ of a map can have, by member: first version
ParamsValues ==
  [submap_size : {submap_size},
   reloc_candidate_search_type : {"EUCDIST"},
   reloc_refinement_type : {"ICP", "LOAM"},
   reloc_candidate_search_config : {"", "search.json"},
   reloc_refinement_config : {"", "refinement.json"},
   local_mapper_covariance : {"1e-5"},
   reloc_covariance : {"1e-3"},
   ros_submap_filter_params : {<<>>, <<"VOXEL">>},
   ros_globalmap_filter_params : {<<>>}]

\* ... second version
ParamsValues2 ==
  [submap_size : {submap_size},
   loop_closure_candidate_search_type : {"EUCDIST"},
   loop_closure_refinement_type : {"ICP", "LOAM"},
   loop_closure_candidate_search_config : {"", "search.json"},
   loop_closure_refinement_config : {"", "refinement.json"},
   local_mapper_covariance : {"1e-5"},
   loop_closure_covariance : {"1e-3"}]

\* the members a Params object has before LoadJson: first version
DefaultParams ==
  [submap_size |-> submap_size, reloc_candidate_search_type |-> "EUCDIST",
   reloc_refinement_type |-> "ICP", reloc_candidate_search_config |-> "",
   reloc_refinement_config |-> "", local_mapper_covariance |-> "1e-5",
   reloc_covariance |-> "1e-3", ros_submap_filter_params |-> <<>>,
   ros_globalmap_filter_params |-> <<>>]

\* ... second version
DefaultParams2 ==
  [submap_size |-> submap_size,
   loop_closure_candidate_search_type |-> "EUCDIST",
   loop_closure_refinement_type |-> "ICP",
   loop_closure_candidate_search_config |-> "",
   loop_closure_refinement_config |-> "",
   local_mapper_covariance |-> "1e-5", loop_closure_covariance |-> "1e-3"]

\* the keys GlobalMap::Params::LoadJson takes from the document, first version
KeysRead ==
  {"submap_size_m", "reloc_candidate_search_type", "reloc_refinement_type",
   "reloc_candidate_search_config", "reloc_refinement_config",
   "local_mapper_covariance_diag", "reloc_covariance_diag", "publishing"}

\* ... second version
KeysRead2 ==
  {"submap_size_m", "loop_closure_candidate_search_type",
   "loop_closure_refinement_type", "loop_closure_candidate_search_config",
   "loop_closure_refinement_config", "local_mapper_covariance_diag",
   "loop_closure_covariance_diag"}

\* GlobalMap::Params::SaveJson, first version
SaveJson(params) ==
  [k \in {"submap_size_m", "reloc_candidate_search_type",
          "reloc_refinement_type", "reloc_candidate_search_config",
          "reloc_refinement_config", "local_mapper_covariance_diag",
          "reloc_covariance_diag"} |->
     CASE k = "submap_size_m" -> params.submap_size
       [] k = "reloc_candidate_search_type" ->
            params.reloc_candidate_search_type
       [] k = "reloc_refinement_type" -> params.reloc_refinement_type
       [] k = "reloc_candidate_search_config" ->
            params.reloc_candidate_search_config
       [] k = "reloc_refinement_config" -> params.reloc_refinement_config
       [] k = "local_mapper_covariance_diag" -> params.local_mapper_covariance
       [] k = "reloc_covariance_diag" -> params.reloc_covariance]

\* GlobalMap::Params::SaveJson, second version
SaveJson2(params) ==
  [k \in {"submap_size_m", "loop_closure_candidate_search_type",
          "loop_closure_refinement_type",
          "loop_closure_candidate_search_config",
          "local_mapper_covariance_diag", "loop_closure_covariance_diag"} |->
     CASE k = "submap_size_m" -> params.submap_size
       [] k = "loop_closure_candidate_search_type" ->
            params.loop_closure_candidate_search_type
       [] k = "loop_closure_refinement_type" ->
            params.loop_closure_refinement_type
       [] k = "loop_closure_candidate_search_config" ->
            params.loop_closure_candidate_search_config
       [] k = "local_mapper_covariance_diag" -> params.local_mapper_covariance
       [] k = "loop_closure_covariance_diag" ->
            params.loop_closure_covariance]

\* GlobalMap::Params::LoadJson, first version, on a document that exists: a
\* key that is absent reads as null, which no number or string can be taken
\* from; the filters listed under an absent "publishing" are none
LoadJson(J) ==
  IF (KeysRead \ {"publishing"}) \subseteq DOMAIN J
    THEN [threw |-> FALSE,
          params |->
            [submap_size |-> J["submap_size_m"],
             reloc_candidate_search_type |-> J["reloc_candidate_search_type"],
             reloc_refinement_type |-> J["reloc_refinement_type"],
             reloc_candidate_search_config |->
               J["reloc_candidate_search_config"],
             reloc_refinement_config |-> J["reloc_refinement_config"],
             local_mapper_covariance |-> J["local_mapper_covariance_diag"],
             reloc_covariance |-> J["reloc_covariance_diag"],
             ros_submap_filter_params |->
               IF "publishing" \in DOMAIN J
                 THEN J["publishing"].submap_lidar_filters ELSE <<>>,
             ros_globalmap_filter_params |->
               IF "publishing" \in DOMAIN J
                 THEN J["publishing"].globalmap_lidar_filters ELSE <<>>]]
    ELSE [threw |-> TRUE, params |-> DefaultParams]

\* GlobalMap::Params::LoadJson, second version
LoadJson2(J) ==
  IF KeysRead2 \subseteq DOMAIN J
    THEN [threw |-> FALSE,
          params |->
            [submap_size |-> J["submap_size_m"],
             loop_closure_candidate_search_type |->
               J["loop_closure_candidate_search_type"],
             loop_closure_refinement_type |->
               J["loop_closure_refinement_type"],
             loop_closure_candidate_search_config |->
               J["loop_closure_candidate_search_config"],
             loop_closure_refinement_config |->
               J["loop_closure_refinement_config"],
             local_mapper_covariance |-> J["local_mapper_covariance_diag"],
             loop_closure_covariance |-> J["loop_closure_covariance_diag"]]]
    ELSE [threw |-> TRUE, params |-> DefaultParams2]

\* the directories "submap" + std::to_string(i) written for a list of submaps
SubmapDirectories(submaps) ==
  [i \in 0..(Len(submaps) - 1) |-> submaps[i + 1]]

\* the loop of Load: submap directories are read from submap_num on until
\* one does not exist
RECURSIVE LoadSubmaps(_, _)
LoadSubmaps(directories, submap_num) ==
  IF submap_num \notin DOMAIN directories THEN <<>>
  ELSE <<directories[submap_num]>> \o LoadSubmaps(directories, submap_num + 1)

\* what SaveData writes for a map of one version with these params and
\* submaps
Written(version, params, submaps) ==
  [exists |-> TRUE, version |-> version,
   params |-> IF version = 1 THEN SaveJson(params) ELSE SaveJson2(params),
   submaps |-> SubmapDirectories(submaps)]

\* GlobalMap::SaveData of the first version, into an empty directory
SaveData(params) ==
  /\ ~saved.exists
  /\ map_fault = "none"
  /\ saved' = Written(1, params, online_submaps_)
  /\ UNCHANGED <<loaded, resaved>>

\* GlobalMap::SaveData of the second version
SaveData2(params) ==
  /\ ~saved.exists
  /\ map_fault = "none"
  /\ saved' = Written(2, params, submaps_)
  /\ UNCHANGED <<loaded, resaved>>

\* GlobalMap::Load of a fresh instance of the version that saved
Load ==
  LET read == IF saved.version = 1 THEN LoadJson(saved.params)
              ELSE LoadJson2(saved.params)
      submaps == LoadSubmaps(saved.submaps, 0)
  IN
  /\ saved.exists
  /\ loaded.status = "none"
  /\ loaded' =
       IF read.threw
         THEN [status |-> "threw", params |-> read.params, submaps |-> <<>>]
         ELSE [status |-> IF Len(submaps) = 0 THEN "false" ELSE "true",
               params |-> read.params, submaps |-> submaps]
  /\ UNCHANGED <<saved, resaved>>

\* SaveData of the loaded instance, into another empty directory
SaveDataLoaded ==
  /\ loaded.status \in {"true", "false"}
  /\ ~resaved.exists
  /\ resaved' = Written(saved.version, loaded.params, loaded.submaps)
  /\ UNCHANGED <<saved, loaded>>

SaveInit ==
  /\ saved = NoDirectory
  /\ loaded = NotLoaded
  /\ resaved = NoDirectory

\* Part VI: the extrinsics registry (ExtrinsicsLookupOnline), the odometry
\* frame initializer that reads it, and the ROS maps the global map queues
\* for publishing.  A transform is a number; the transform source is what
\* tf_listener_.lookupTransform finds.
MaxTf == 2
MaxBroadcasts == 2
MaxGets == 3
MaxOdometry == 3
MaxRosMeasurements == 3
MaxDrains == 2
MaxRosBroadcasts == 1

VARIABLES
  instance,          \* the static ExtrinsicsLookupOnline has been constructed
  static_extrinsics_,
  baselink_frame,    \* frame_ids.baselink
  tf_listener_,      \* the transform source: what a lookup finds, by
                     \* <<to_frame, from_frame>>
  extrinsics_,       \* the transforms stored in *extrinsics_
  got,               \* the last GetTransform / GetT_* call of a caller and
                     \* what it gave back
  nGets,             \* such calls so far
  held,              \* the T an earlier caller holds
  extrinsics_copy,   \* what GetExtrinsicsCopy returned last
  nBroadcasts,
  \* OdometryFrameInitializer
  initializer_,      \* the initializer has been constructed
  sensor_frame_id_,
  override_sensor_frame_id_,
  check_world_baselink_frames_,
  poses_,            \* header.seq of the messages whose pose was stored
  odometry_seen,     \* the messages so far: [seq, skipped]
  \* GlobalMap, the ROS maps
  store_newly_completed_submaps_,
  store_new_scans_,
  store_updated_global_map_,
  scans_requested,   \* the last value given to SetStoreNewScans
  ros_submaps_,
  ros_new_scans_,
  ros_global_lidar_map_,
  ros_global_keypoints_map_,
  new_scans_counter_,
  made,              \* RosMap objects constructed so far
  maps_vector,       \* what the last GetRosMaps returned
  ros_returned,      \* the ids of the RosMaps returned so far
  nDrains

registryVars ==
  <<instance, static_extrinsics_, baselink_frame, tf_listener_, extrinsics_,
    nBroadcasts>>

callerVars == <<got, nGets, held, extrinsics_copy>>

odometryVars ==
  <<initializer_, sensor_frame_id_, override_sensor_frame_id_,
    check_world_baselink_frames_, poses_, odometry_seen>>

queueVars ==
  <<store_newly_completed_submaps_, store_new_scans_,
    store_updated_global_map_, scans_requested, ros_submaps_, ros_new_scans_,
    ros_global_lidar_map_, ros_global_keypoints_map_, new_scans_counter_,
    made, maps_vector, ros_returned, nDrains>>

rosVars == <<registryVars, callerVars, odometryVars, queueVars>>

\* the sensor frames of frame_ids; the baselink frame is one of them
Frames == {"imu", "lidar"}

FramePairs == {p \in Frames \X Frames : p[1] # p[2]}

\* no transform: not stored, not found, or a T that was not written
NoTransform == 0

Transforms == 1..MaxTf

\* Eigen::Matrix4d::Identity()
IdentityTransform == MaxTf + 1

NoTransforms == [p \in FramePairs |-> NoTransform]

\* ExtrinsicsLookupBase::SetTransform
SetTransform(extrinsics, T, to_frame, from_frame) ==
  [extrinsics EXCEPT ![<<to_frame, from_frame>>] = T]

\* ExtrinsicsLookupBase::GetTransform: false when the transform is not set
StoredTransform(extrinsics, to_frame, from_frame) ==
  [ok |-> extrinsics[<<to_frame, from_frame>>] # NoTransform,
   T |-> extrinsics[<<to_frame, from_frame>>]]

\* ExtrinsicsLookupOnline::LookupTransform: false when lookupTransform throws
LookupTransform(to_frame, from_frame) ==
  [ok |-> tf_listener_[<<to_frame, from_frame>>] # NoTransform,
   T |-> tf_listener_[<<to_frame, from_frame>>]]

\* what a get gives back: the flag, the T written for the caller and the
\* stored transforms afterwards
Failed == [ok |-> FALSE, T |-> NoTransform, extrinsics |-> extrinsics_]

LookedUpAndSet(to_frame, from_frame) ==
  LET looked == LookupTransform(to_frame, from_frame) IN
  IF ~looked.ok THEN Failed
  ELSE [ok |-> TRUE, T |-> looked.T,
        extrinsics |-> SetTransform(extrinsics_, looked.T, to_frame,
                                    from_frame)]

\* a get that looks the transform up in either mode
GetTransformRefreshing(to_frame, from_frame) ==
  LookedUpAndSet(to_frame, from_frame)

\* ExtrinsicsLookupOnline::GetTransform
GetTransform(to_frame, from_frame) ==
  LET stored == StoredTransform(extrinsics_, to_frame, from_frame) IN
  IF ~static_extrinsics_ THEN LookedUpAndSet(to_frame, from_frame)
  ELSE IF stored.ok
    THEN [ok |-> TRUE, T |-> stored.T, extrinsics |-> extrinsics_]
  ELSE LookedUpAndSet(to_frame, from_frame)

\* GetT_BASELINK_LIDAR: the identity without a lookup when the lidar frame is
\* the baselink frame
GetT_BASELINK_LIDAR ==
  IF baselink_frame = "lidar"
    THEN [ok |-> TRUE, T |-> IdentityTransform, extrinsics |-> extrinsics_]
    ELSE GetTransform(baselink_frame, "lidar")

\* GetT_SENSOR_BASELINK for a valid sensor frame other than the baselink
GetT_SENSOR_BASELINK(sensor_frame) == GetTransform(sensor_frame, baselink_frame)

NoCall ==
  [op |-> "none", to_frame |-> "", from_frame |-> "", ok |-> FALSE,
   T |-> NoTransform]

\* ExtrinsicsLookupOnline(): the parameters come from the ROS namespace
ExtrinsicsLookupOnline(static, baselink) ==
  /\ ~instance
  /\ instance' = TRUE
  /\ static_extrinsics_' = static
  /\ baselink_frame' = baselink
  /\ extrinsics_' = NoTransforms
  /\ UNCHANGED <<tf_listener_, nBroadcasts, callerVars, odometryVars,
                 queueVars>>

\* the transform source learns a transform, or a new value of it
Broadcast(to_frame, from_frame, T) ==
  /\ nBroadcasts' = nBroadcasts + 1
  /\ tf_listener_' = [tf_listener_ EXCEPT ![<<to_frame, from_frame>>] = T]
  /\ UNCHANGED <<instance, static_extrinsics_, baselink_frame, extrinsics_,
                 callerVars, odometryVars, queueVars>>

\* a caller's GetTransform(T, to_frame, from_frame); the T a caller got
\* before stays with that caller
CallGetTransform(to_frame, from_frame) ==
  LET result == GetTransform(to_frame, from_frame) IN
  /\ instance
  /\ nGets' = nGets + 1
  /\ got' = [op |-> "GetTransform", to_frame |-> to_frame,
             from_frame |-> from_frame, ok |-> result.ok, T |-> result.T]
  /\ held' = IF got.ok THEN got.T ELSE held
  /\ extrinsics_' = result.extrinsics
  /\ UNCHANGED <<instance, static_extrinsics_, baselink_frame, tf_listener_,
                 nBroadcasts, extrinsics_copy, odometryVars, queueVars>>

\* a caller's GetT_BASELINK_LIDAR(T)
CallGetT_BASELINK_LIDAR ==
  LET result == GetT_BASELINK_LIDAR IN
  /\ instance
  /\ nGets' = nGets + 1
  /\ got' = [op |-> "GetT_BASELINK_LIDAR", to_frame |-> baselink_frame,
             from_frame |-> "lidar", ok |-> result.ok, T |-> result.T]
  /\ held' = IF got.ok THEN got.T ELSE held
  /\ extrinsics_' = result.extrinsics
  /\ UNCHANGED <<instance, static_extrinsics_, baselink_frame, tf_listener_,
                 nBroadcasts, extrinsics_copy, odometryVars, queueVars>>

\* GetExtrinsicsCopy returns *extrinsics_ by value
GetExtrinsicsCopy ==
  /\ instance
  /\ extrinsics_copy' = extrinsics_
  /\ UNCHANGED <<registryVars, got, nGets, held, odometryVars, queueVars>>

\* OdometryFrameInitializer(...): "" is no sensor_frame_id_override
OdometryFrameInitializer(sensor_frame_id_override) ==
  /\ instance
  /\ ~initializer_
  /\ initializer_' = TRUE
  /\ sensor_frame_id_' = IF sensor_frame_id_override # ""
                           THEN sensor_frame_id_override
                           ELSE baselink_frame
  /\ override_sensor_frame_id_' = (sensor_frame_id_override # "")
  /\ UNCHANGED <<registryVars, callerVars, check_world_baselink_frames_,
                 poses_, odometry_seen, queueVars>>

\* CheckOdometryFrameIDs: without an override the sensor frame is the one
\* the child frame of the message names
CheckedSensorFrame(child_frame_id) ==
  IF override_sensor_frame_id_ THEN sensor_frame_id_ ELSE child_frame_id

\* OdometryFrameInitializer::OdometryCallback
OdometryCallback(child_frame_id) ==
  LET seq == Len(odometry_seen) + 1
      sensor_frame == IF check_world_baselink_frames_
                        THEN CheckedSensorFrame(child_frame_id)
                        ELSE sensor_frame_id_
      result == GetT_SENSOR_BASELINK(sensor_frame)
      copied == sensor_frame = baselink_frame
      stored == copied \/ result.ok
  IN
  /\ initializer_
  /\ check_world_baselink_frames_' = FALSE
  /\ sensor_frame_id_' = sensor_frame
  /\ extrinsics_' = IF copied THEN extrinsics_ ELSE result.extrinsics
  /\ poses_' = IF stored THEN poses_ \cup {seq} ELSE poses_
  /\ odometry_seen' =
       Append(odometry_seen,
              [seq |-> seq, skipped |-> ~stored,
               available |-> copied \/ LookupTransform(sensor_frame,
                                                       baselink_frame).ok
                               \/ StoredTransform(extrinsics_, sensor_frame,
                                                  baselink_frame).ok])
  /\ UNCHANGED <<instance, static_extrinsics_, baselink_frame, tf_listener_,
                 nBroadcasts, callerVars, initializer_,
                 override_sensor_frame_id_, queueVars>>

\* the sizes the queues are trimmed to
max_num_ros_submaps_ == 2

max_num_new_scans_ == 2

NullRosMap == [type |-> "NONE", seq |-> 0, id |-> 0]

RosMap(type, seq, id) == [type |-> type, seq |-> seq, id |-> id]

\* a queue that is never trimmed
Untrimmed(queue, max) == queue

\* while (queue.size() > max) queue.pop()
RECURSIVE Trimmed(_, _)
Trimmed(queue, max) ==
  IF Len(queue) > max THEN Trimmed(Tail(queue), max) ELSE queue

\* GlobalMap::AddRosSubmap(submap_id): what it pushes, before the trimming
SubmapsPushed(submap_id, lidar_points, keypoints) ==
  (IF lidar_points
     THEN <<RosMap("LIDARSUBMAP", submap_id + 1, made + 1)>> ELSE <<>>)
  \o (IF keypoints
        THEN <<RosMap("VISUALSUBMAP", submap_id + 1,
                      made + 1 + (IF lidar_points THEN 1 ELSE 0))>>
        ELSE <<>>)

AddRosSubmap(queue, submap_id, lidar_points, keypoints) ==
  Trimmed(queue \o SubmapsPushed(submap_id, lidar_points, keypoints),
          max_num_ros_submaps_)

\* GlobalMap::AddNewRosScan: the flag store_new_scans_ is left with, the
\* queue, the counter and the stored transforms afterwards
AddNewRosScan(queue, id) ==
  LET result == GetT_BASELINK_LIDAR IN
  IF ~result.ok
    THEN [store_new_scans |-> FALSE, queue |-> queue,
          counter |-> new_scans_counter_, pushed |-> 0,
          extrinsics |-> result.extrinsics]
    ELSE [store_new_scans |-> TRUE,
          queue |-> Trimmed(Append(queue,
                                   RosMap("LIDARNEW", new_scans_counter_,
                                          id)),
                            max_num_new_scans_),
          counter |-> new_scans_counter_ + 1, pushed |-> 1,
          extrinsics |-> result.extrinsics]

\* GlobalMap::SetStoreNewSubmaps
SetStoreNewSubmaps(store_new_submaps) ==
  /\ store_newly_completed_submaps_' = store_new_submaps
  /\ UNCHANGED <<registryVars, callerVars, odometryVars, store_new_scans_,
                 store_updated_global_map_, scans_requested, ros_submaps_,
                 ros_new_scans_, ros_global_lidar_map_,
                 ros_global_keypoints_map_, new_scans_counter_, made,
                 maps_vector, ros_returned, nDrains>>

\* GlobalMap::SetStoreNewScans
SetStoreNewScans(store_new_scans) ==
  /\ store_new_scans_' = store_new_scans
  /\ scans_requested' = store_new_scans
  /\ UNCHANGED <<registryVars, callerVars, odometryVars,
                 store_newly_completed_submaps_, store_updated_global_map_,
                 ros_submaps_, ros_new_scans_, ros_global_lidar_map_,
                 ros_global_keypoints_map_, new_scans_counter_, made,
                 maps_vector, ros_returned, nDrains>>

\* GlobalMap::SetStoreUpdatedGlobalMap
SetStoreUpdatedGlobalMap(store_updated_global_map) ==
  /\ store_updated_global_map_' = store_updated_global_map
  /\ UNCHANGED <<registryVars, callerVars, odometryVars,
                 store_newly_completed_submaps_, store_new_scans_,
                 scans_requested, ros_submaps_, ros_new_scans_,
                 ros_global_lidar_map_, ros_global_keypoints_map_,
                 new_scans_counter_, made, maps_vector, ros_returned,
                 nDrains>>

\* GlobalMap::AddMeasurement with the ROS maps it stores: the submap that has
\* just been completed when a submap is created, and the new scan when the
\* measurement has lidar points.  submap_lidar and submap_keypoints say
\* whether the clouds of the completed submap hold points.
AddMeasurementRos(T_WORLD_BASELINK, lidar_points, submap_lidar, submap_keypoints) ==
  LET creates ==
        GetSubmapId(online_submaps_, T_WORLD_BASELINK) = Len(online_submaps_)
      size == Len(online_submaps_) + 1
      completed == creates /\ store_newly_completed_submaps_ /\ size > 1
      new_maps == IF completed
                  THEN SubmapsPushed(size - 2, submap_lidar, submap_keypoints)
                  ELSE <<>>
      scanned == lidar_points /\ store_new_scans_
      scan == AddNewRosScan(ros_new_scans_, made + Len(new_maps) + 1)
  IN
  /\ instance
  /\ AddMeasurement(T_WORLD_BASELINK, lidar_points, <<>>, {})
  /\ ~completed => (~submap_lidar /\ ~submap_keypoints)
  /\ ros_submaps_' = IF completed
                       THEN AddRosSubmap(ros_submaps_, size - 2, submap_lidar,
                                         submap_keypoints)
                       ELSE ros_submaps_
  /\ ros_new_scans_' = IF scanned THEN scan.queue ELSE ros_new_scans_
  /\ store_new_scans_' = IF scanned THEN scan.store_new_scans
                         ELSE store_new_scans_
  /\ new_scans_counter_' = IF scanned THEN scan.counter ELSE new_scans_counter_
  /\ extrinsics_' = IF scanned THEN scan.extrinsics ELSE extrinsics_
  /\ made' = made + Len(new_maps) + (IF scanned THEN scan.pushed ELSE 0)
  /\ UNCHANGED <<instance, static_extrinsics_, baselink_frame, tf_listener_,
                 nBroadcasts, callerVars, odometryVars,
                 store_newly_completed_submaps_, store_updated_global_map_,
                 scans_requested, ros_global_lidar_map_,
                 ros_global_keypoints_map_, maps_vector, ros_returned,
                 nDrains>>

\* GlobalMap::UpdateSubmapPoses with AddRosGlobalMap: the maps that hold
\* points replace the pending ones
UpdateSubmapPosesRos(global_lidar_map, global_keypoints_map) ==
  LET stored_lidar == store_updated_global_map_ /\ global_lidar_map
      stored_keypoints == store_updated_global_map_ /\ global_keypoints_map
  IN
  /\ UpdateSubmapPoses
  /\ ~store_updated_global_map_ => (~global_lidar_map /\ ~global_keypoints_map)
  /\ ros_global_lidar_map_' =
       IF stored_lidar
         THEN RosMap("LIDARGLOBALMAP", global_map_updates_, made + 1)
         ELSE ros_global_lidar_map_
  /\ ros_global_keypoints_map_' =
       IF stored_keypoints
         THEN RosMap("VISUALGLOBALMAP", global_map_updates_,
                     made + 1 + (IF stored_lidar THEN 1 ELSE 0))
         ELSE ros_global_keypoints_map_
  /\ made' = made + (IF stored_lidar THEN 1 ELSE 0)
                  + (IF stored_keypoints THEN 1 ELSE 0)
  /\ UNCHANGED <<registryVars, callerVars, odometryVars,
                 store_newly_completed_submaps_, store_new_scans_,
                 store_updated_global_map_, scans_requested, ros_submaps_,
                 ros_new_scans_, new_scans_counter_, maps_vector,
                 ros_returned, nDrains>>

\* the vector GetRosMaps builds
Drained ==
  ros_new_scans_ \o ros_submaps_
    \o (IF ros_global_lidar_map_ # NullRosMap
          THEN <<ros_global_lidar_map_>> ELSE <<>>)
    \o (IF ros_global_keypoints_map_ # NullRosMap
          THEN <<ros_global_keypoints_map_>> ELSE <<>>)

\* GlobalMap::GetRosMaps
GetRosMaps ==
  /\ nDrains' = nDrains + 1
  /\ maps_vector' = Drained
  /\ ros_returned' = ros_returned \cup {m.id : m \in Range(Drained)}
  /\ ros_new_scans_' = <<>>
  /\ ros_submaps_' = <<>>
  /\ ros_global_lidar_map_' = NullRosMap
  /\ ros_global_keypoints_map_' = NullRosMap
  /\ UNCHANGED <<registryVars, callerVars, odometryVars,
                 store_newly_completed_submaps_, store_new_scans_,
                 store_updated_global_map_, scans_requested,
                 new_scans_counter_, made>>

RosInit ==
  /\ instance = FALSE
  /\ static_extrinsics_ = FALSE
  /\ baselink_frame = "imu"
  /\ tf_listener_ = NoTransforms
  /\ extrinsics_ = NoTransforms
  /\ got = NoCall
  /\ nGets = 0
  /\ held = NoTransform
  /\ extrinsics_copy = NoTransforms
  /\ nBroadcasts = 0
  /\ initializer_ = FALSE
  /\ sensor_frame_id_ = ""
  /\ override_sensor_frame_id_ = FALSE
  /\ check_world_baselink_frames_ = TRUE
  /\ poses_ = {}
  /\ odometry_seen = <<>>
  /\ store_newly_completed_submaps_ = FALSE
  /\ store_new_scans_ = FALSE
  /\ store_updated_global_map_ = FALSE
  /\ scans_requested = FALSE
  /\ ros_submaps_ = <<>>
  /\ ros_new_scans_ = <<>>
  /\ ros_global_lidar_map_ = NullRosMap
  /\ ros_global_keypoints_map_ = NullRosMap
  /\ new_scans_counter_ = 0
  /\ made = 0
  /\ maps_vector = <<>>
  /\ ros_returned = {}
  /\ nDrains = 0

\* Part VII: the configuration loaders that run at startup.  A configuration
\* is what a loader finds: whether the file can be read, how many values the
\* covariance diagonals have, and the values of the parameters that are
\* checked.
VARIABLES
  loaded_config   \* by loader: the configuration it was last given and what
                  \* it did with it

cfgVars == <<loaded_config>>

Loaders ==
  {"GlobalMap", "GlobalMapRefinement", "ScanMatcher3D", "SLAMInitialization",
   "ImuPreintegration"}

\* a configuration nothing is wrong with
ValidConfig ==
  [readable |-> TRUE, local_mapper_covariance_diag |-> 6,
   reloc_covariance_diag |-> 6, num_neighbors |-> 1, cov_prior_noise |-> 1,
   init_mode |-> "VISUAL"]

\* sizes of a covariance diagonal in the file
DiagonalSizes == {5, 6, 7}

InitModes == {"VISUAL", "LIDAR", "FRAMEINIT", "STEREO"}

\* the configurations each loader is tried with: the members it reads vary
GlobalMapConfigs ==
  {[ValidConfig EXCEPT !.readable = r, !.local_mapper_covariance_diag = a,
                       !.reloc_covariance_diag = b] :
     r \in BOOLEAN, a \in DiagonalSizes, b \in DiagonalSizes}

GlobalMapRefinementConfigs ==
  {[ValidConfig EXCEPT !.readable = r] : r \in BOOLEAN}

ScanMatcher3DConfigs ==
  {[ValidConfig EXCEPT !.num_neighbors = n] : n \in 0..2}

SLAMInitializationConfigs ==
  {[ValidConfig EXCEPT !.readable = r, !.init_mode = m] :
     r \in BOOLEAN, m \in InitModes}

ImuPreintegrationConfigs ==
  {[ValidConfig EXCEPT !.cov_prior_noise = c] : c \in -1..1}

\* what a loader did: it returned or it threw, what it logged as an error,
\* and the members it left at their defaults although the file was to set
\* them
Outcome(config, status, errors, defaults) ==
  [config |-> config, status |-> status, errors |-> errors,
   defaults |-> defaults]

NotLoadedConfig == Outcome(ValidConfig, "none", {}, {})

\* GlobalMap::Params::LoadJson with a config path that is not empty
GlobalMapParamsLoadJson(config) ==
  IF ~config.readable
    THEN Outcome(config, "returned", {"Using default parameters."}, {"all"})
    ELSE Outcome(config, "returned",
                 (IF config.local_mapper_covariance_diag # 6
                    THEN {"Invalid local mapper covariance diagonal"}
                    ELSE {})
                 \cup (IF config.reloc_covariance_diag # 6
                         THEN {"Invalid reloc covariance diagonal"} ELSE {}),
                 (IF config.local_mapper_covariance_diag # 6
                    THEN {"local_mapper_covariance"} ELSE {})
                 \cup (IF config.reloc_covariance_diag # 6
                         THEN {"reloc_covariance"} ELSE {}))

\* GlobalMapRefinement::Params::LoadJson with a config path that is not empty
GlobalMapRefinementParamsLoadJson(config) ==
  IF ~config.readable
    THEN Outcome(config, "threw",
                 {"Unable to read global map refinement config"}, {})
    ELSE Outcome(config, "returned", {}, {})

\* ScanMatcher3DParams::loadExtraParams
ScanMatcher3DParamsLoadExtraParams(config) ==
  IF config.num_neighbors < 1
    THEN Outcome(config, "threw",
                 {"parameter num_neighbors must be greater than 0."}, {})
    ELSE Outcome(config, "returned", {}, {})

\* SLAMInitializationParams::loadFromROS; readable is about vo_params.json
SLAMInitializationParamsLoadFromROS(config) ==
  Outcome(config, "returned",
          (IF config.init_mode # "VISUAL" /\ config.init_mode # "LIDAR"
             THEN {"Invalid init mode type, options: 'VISUAL', 'LIDAR'."}
             ELSE {})
          \cup (IF ~config.readable
                  THEN {"Cannot read input VO Params, using default."}
                  ELSE {}),
          IF ~config.readable THEN {"max_triangulation_distance"} ELSE {})

\* ImuPreintegration::CheckParameters
ImuPreintegrationCheckParameters(config) ==
  IF config.cov_prior_noise <= 0
    THEN Outcome(config, "threw",
                 {"Prior noise on IMU state must be positive"}, {})
    ELSE Outcome(config, "returned", {}, {})

\* a loader runs on a configuration
LoadGlobalMapConfig(config) ==
  loaded_config' =
    [loaded_config EXCEPT !["GlobalMap"] = GlobalMapParamsLoadJson(config)]

LoadGlobalMapRefinementConfig(config) ==
  loaded_config' =
    [loaded_config EXCEPT
       !["GlobalMapRefinement"] = GlobalMapRefinementParamsLoadJson(config)]

LoadScanMatcher3DConfig(config) ==
  loaded_config' =
    [loaded_config EXCEPT
       !["ScanMatcher3D"] = ScanMatcher3DParamsLoadExtraParams(config)]

LoadSLAMInitializationConfig(config) ==
  loaded_config' =
    [loaded_config EXCEPT
       !["SLAMInitialization"] = SLAMInitializationParamsLoadFromROS(config)]

LoadImuPreintegrationConfig(config) ==
  loaded_config' =
    [loaded_config EXCEPT
       !["ImuPreintegration"] = ImuPreintegrationCheckParameters(config)]

CfgInit == loaded_config = [loader \in Loaders |-> NotLoadedConfig]

\* Part VIII: LVIOInitializer::TriangulateLandmarks.  The tracker holds, for
\* each landmark id, the stamps of the images it was measured in; the visual
\* map holds the poses of the keyframes, the landmarks and the reprojection
\* constraints.
MaxTriStamp == 4
MaxPoint == 2
MaxTriangulations == 2

VARIABLES
  tracker_,           \* by landmark id: the stamps of its feature track
  tri_images,         \* images given to the tracker so far
  visual_map_,        \* [poses, landmarks, constraints]
  nTriangulations     \* calls of TriangulateLandmarks so far

triVars == <<tracker_, tri_images, visual_map_, nTriangulations>>

LandmarkIds == {1, 2}

TriStamps == 1..MaxTriStamp

\* beam::opt without a value
NoPoint == 0

Points == 1..MaxPoint

\* the lists of ids TriangulateLandmarks is called with
LandmarkIdLists == {<<1>>, <<2, 1>>, <<1, 1>>}

\* the measurements of a track whatever frame they are in
ObservedInAnyFrame(map, track) == track

\* the measurements of a track whose frame has a pose in the map
ObservedInKeyframes(map, track) == {t \in track : t \in map.poses}

\* visual_map_->addConstraint for each observation
WithConstraints(constraints, observation_stamps, id) ==
  constraints \cup {<<t, id>> : t \in observation_stamps}

\* the body of the loop for one id; point is what TriangulatePoint returns
TriangulateLandmark(map, id, point) ==
  LET observation_stamps == ObservedInKeyframes(map, tracker_[id]) IN
  IF map.landmarks[id] # NoPoint THEN map
  ELSE IF Cardinality(observation_stamps) >= 3 /\ point # NoPoint
    THEN [map EXCEPT
            !.landmarks[id] = point,
            !.constraints = WithConstraints(@, observation_stamps, id)]
    ELSE map

\* the loop over landmark_ids
RECURSIVE TriangulateFrom(_, _, _, _)
TriangulateFrom(map, landmark_ids, point, i) ==
  IF i > Len(landmark_ids) THEN map
  ELSE TriangulateFrom(TriangulateLandmark(map, landmark_ids[i],
                                           point[landmark_ids[i]]),
                       landmark_ids, point, i + 1)

\* LVIOInitializer::TriangulateLandmarks
TriangulateLandmarks(landmark_ids, point) ==
  /\ nTriangulations' = nTriangulations + 1
  /\ visual_map_' = TriangulateFrom(visual_map_, landmark_ids, point, 1)
  /\ UNCHANGED <<tracker_, tri_images>>

\* the tracker is given the next image, in which the ids of seen are found
TrackImage(seen) ==
  /\ tri_images' = tri_images + 1
  /\ tracker_' = [id \in LandmarkIds |->
                    IF id \in seen THEN tracker_[id] \cup {tri_images + 1}
                    ELSE tracker_[id]]
  /\ UNCHANGED <<visual_map_, nTriangulations>>

\* the pose of a frame is added to the visual map: the frame is a keyframe
AddKeyframePose(stamp) ==
  /\ stamp \notin visual_map_.poses
  /\ visual_map_' = [visual_map_ EXCEPT !.poses = @ \cup {stamp}]
  /\ UNCHANGED <<tracker_, tri_images, nTriangulations>>

TriInit ==
  /\ tracker_ = [id \in LandmarkIds |-> {}]
  /\ tri_images = 0
  /\ visual_map_ = [poses |-> {},
                    landmarks |-> [id \in LandmarkIds |-> NoPoint],
                    constraints |-> {}]
  /\ nTriangulations = 0

lateVars == <<rosVars, cfgVars, triVars>>

\* the state of the parts that came after the global map
extVars == <<scanVars, saveVars, lateVars>>

vars == <<imuVars, vioVars, mapVars, extVars>>

Init ==
  ImuInit /\ VioInit /\ MapInit /\ ScanInit /\ SaveInit /\ RosInit
    /\ CfgInit /\ TriInit

ImuNext ==
  \/ \E t \in Stamps : AddToBuffer(t) /\ UNCHANGED <<vioVars, mapVars, extVars>>
  \/ \E t \in Stamps, a \in StartArgs : \E g \in Garbage(t) :
       SetStart(t, a[1], a[2], a[3], g) /\ UNCHANGED <<vioVars, mapVars, extVars>>
  \/ \E t \in Stamps : \E g \in Garbage(t) :
       GetPose(t, g) /\ UNCHANGED <<vioVars, mapVars, extVars>>
  \/ \E t \in Stamps, a \in RegisterArgs : \E g \in Garbage(t) :
       RegisterNewImuPreintegratedFactor(t, a[1], a[2], g)
         /\ UNCHANGED <<vioVars, mapVars, extVars>>
  \/ \E graph \in Graphs : UpdateGraph(graph) /\ UNCHANGED <<vioVars, mapVars, extVars>>

VioNext ==
  \/ \E t \in NextStamps(img_arrived), g \in StaleStamps(imu_buffer_),
        f \in FrameDataRead :
       processImage(t, g, f) /\ UNCHANGED <<imuVars, mapVars, extVars>>
  \/ \E t \in NextStamps(imu_arrived), g \in StaleStamps(image_buffer_) :
       processIMU(t, g) /\ UNCHANGED <<imuVars, mapVars, extVars>>

MapNext ==
  \/ \E p \in Positions, has_data \in BOOLEAN,
        matched_indices \in SearchOutputs(Len(online_submaps_) + 1, 1) :
       \E refined \in SUBSET Range(matched_indices) :
         /\ spacing = 0
         /\ nAdded < MaxMeasurements
         /\ AddMeasurement(p, has_data, matched_indices, refined)
         /\ UNCHANGED <<imuVars, vioVars, extVars>>
  \/ \E p \in Positions, has_data \in BOOLEAN,
        matched_indices \in SearchOutputs(Len(submaps_) + 1, 1) :
       \E refined \in SUBSET Range(matched_indices) :
         /\ spacing = 0
         /\ nAdded < MaxMeasurements
         /\ AddMeasurement2(p, has_data, matched_indices, refined)
         /\ UNCHANGED <<imuVars, vioVars, extVars>>
  \/ \E s \in Spacings : StartTrajectory(s) /\ UNCHANGED <<imuVars, vioVars, extVars>>
  \/ \E matched_indices \in SearchOutputs(Len(online_submaps_) + 1, 1) :
       \E refined \in SUBSET Range(matched_indices) :
         FeedTrajectory(matched_indices, refined)
           /\ UNCHANGED <<imuVars, vioVars, extVars>>

\* positions that open a submap each time they move on
RelocPositions == {p \in Positions : p % submap_size = 0}

RelocNext ==
  \/ \E p \in RelocPositions,
        matched_indices
          \in SearchOutputs(Len(online_submaps_) + 1, MaxCandidates) :
       \E refined \in SUBSET Range(matched_indices) :
         /\ nAdded < MaxOnline
         /\ AddMeasurement(p, FALSE, matched_indices, refined)
         /\ UNCHANGED <<imuVars, vioVars, extVars>>
  \/ \E matched_indices
          \in SearchOutputs(Len(online_submaps_), MaxCandidates) :
       \E refined \in SUBSET Range(matched_indices) :
         /\ nRequests < MaxRequests
         /\ TriggerLoopClosure(matched_indices, refined)
         /\ UNCHANGED <<imuVars, vioVars, extVars>>
  \/ /\ global_map_updates_ < MaxUpdates
     /\ UpdateSubmapPoses
     /\ UNCHANGED <<imuVars, vioVars, extVars>>
  \/ \E n \in 1..MaxOffline :
       /\ offline_submaps_ = 0
       /\ nRequests = 0
       /\ SetOfflineSubmaps(n)
       /\ UNCHANGED <<imuVars, vioVars, extVars>>
  \/ \E off \in SearchOutputs(offline_submaps_, MaxCandidates),
        on \in SearchOutputs(Len(online_submaps_), MaxCandidates) :
       \E off_refined \in SUBSET Range(off), on_refined \in SUBSET Range(on) :
         /\ nRequests < MaxRequests
         /\ ProcessRelocRequest(off, off_refined, on, on_refined)
         /\ UNCHANGED <<imuVars, vioVars, extVars>>


\* scans arrive with stamps after those already registered
ScanNext ==
  \/ \E n \in 1..MaxNeighbors, fix \in BOOLEAN, lag \in 0..MaxLag :
       MultiScanRegistration(n, fix, lag)
         /\ UNCHANGED <<imuVars, vioVars, mapVars, saveVars, lateVars>>
  \/ \E stamp \in ScanStamps, cloud_empty \in BOOLEAN,
        passed_motion \in BOOLEAN, rejected \in SUBSET Range(Neighbors) :
       /\ nScans < MaxScans
       /\ \A s \in Range(registered_scans) : s < stamp
       /\ RegisterNewScan(stamp, cloud_empty, passed_motion, rejected)
       /\ UNCHANGED <<imuVars, vioVars, mapVars, saveVars, lateVars>>
  \/ UpdateGraphWith /\ UNCHANGED <<imuVars, vioVars, mapVars, saveVars, lateVars>>
  \/ \E transaction \in applied_ :
       /\ nReapplied < MaxReapplied
       /\ UpdateGraphAgain(transaction)
       /\ UNCHANGED <<imuVars, vioVars, mapVars, saveVars, lateVars>>

\* a map is built, saved, loaded into a fresh instance and saved again
SaveNext ==
  \/ \E p \in RelocPositions :
       /\ nAdded < MaxOnline
       /\ ~saved.exists
       /\ AddMeasurement(p, FALSE, <<>>, {})
       /\ UNCHANGED <<imuVars, vioVars, extVars>>
  \/ \E p \in RelocPositions :
       /\ nAdded < MaxOnline
       /\ ~saved.exists
       /\ AddMeasurement2(p, FALSE, <<>>, {})
       /\ UNCHANGED <<imuVars, vioVars, extVars>>
  \/ \E params \in ParamsValues :
       SaveData(params) /\ UNCHANGED <<imuVars, vioVars, mapVars, scanVars, lateVars>>
  \/ \E params \in ParamsValues2 :
       SaveData2(params) /\ UNCHANGED <<imuVars, vioVars, mapVars, scanVars, lateVars>>
  \/ Load /\ UNCHANGED <<imuVars, vioVars, mapVars, scanVars, lateVars>>
  \/ SaveDataLoaded /\ UNCHANGED <<imuVars, vioVars, mapVars, scanVars, lateVars>>

\* the registry and the callers that read it directly
ExtNext ==
  \/ \E static \in BOOLEAN, baselink \in Frames :
       ExtrinsicsLookupOnline(static, baselink)
         /\ UNCHANGED <<imuVars, vioVars, mapVars, scanVars, saveVars, cfgVars,
                      triVars>>
  \/ \E p \in FramePairs, T \in Transforms :
       /\ nBroadcasts < MaxBroadcasts
       /\ Broadcast(p[1], p[2], T)
       /\ UNCHANGED <<imuVars, vioVars, mapVars, scanVars, saveVars, cfgVars,
                      triVars>>
  \/ \E p \in FramePairs :
       /\ nGets < MaxGets
       /\ CallGetTransform(p[1], p[2])
       /\ UNCHANGED <<imuVars, vioVars, mapVars, scanVars, saveVars, cfgVars,
                      triVars>>
  \/ /\ nGets < MaxGets
     /\ CallGetT_BASELINK_LIDAR
     /\ UNCHANGED <<imuVars, vioVars, mapVars, scanVars, saveVars, cfgVars,
                      triVars>>
  \/ GetExtrinsicsCopy
       /\ UNCHANGED <<imuVars, vioVars, mapVars, scanVars, saveVars, cfgVars,
                      triVars>>
  \/ \E sensor_frame_id_override \in Frames \cup {""} :
       OdometryFrameInitializer(sensor_frame_id_override)
         /\ UNCHANGED <<imuVars, vioVars, mapVars, scanVars, saveVars, cfgVars,
                      triVars>>
  \/ \E child_frame_id \in Frames :
       /\ Len(odometry_seen) < MaxOdometry
       /\ OdometryCallback(child_frame_id)
       /\ UNCHANGED <<imuVars, vioVars, mapVars, scanVars, saveVars, cfgVars,
                      triVars>>

\* the robot stays in the newest submap or moves on by one submap
RosPositions ==
  {p \in RelocPositions :
     \/ p = submap_size * Len(online_submaps_)
     \/ online_submaps_ # <<>> /\ p = submap_size * (Len(online_submaps_) - 1)}

\* the global map and the ROS maps it queues; the node sets what is stored
\* before the measurements arrive
RosNext ==
  \/ \E static \in BOOLEAN, baselink \in Frames :
       ExtrinsicsLookupOnline(static, baselink)
         /\ UNCHANGED <<imuVars, vioVars, mapVars, scanVars, saveVars, cfgVars,
                      triVars>>
  \/ \E T \in {MaxTf} :
       /\ instance
       /\ baselink_frame # "lidar"
       /\ nBroadcasts < MaxRosBroadcasts
       /\ Broadcast(baselink_frame, "lidar", T)
       /\ UNCHANGED <<imuVars, vioVars, mapVars, scanVars, saveVars, cfgVars,
                      triVars>>
  \/ \E b \in BOOLEAN :
       /\ instance
       /\ nAdded + nDrains + global_map_updates_ = 0
       /\ SetStoreNewSubmaps(b)
       /\ UNCHANGED <<imuVars, vioVars, mapVars, scanVars, saveVars, cfgVars,
                      triVars>>
  \/ \E b \in BOOLEAN :
       /\ instance
       /\ nAdded + nDrains + global_map_updates_ = 0
       /\ SetStoreNewScans(b)
       /\ UNCHANGED <<imuVars, vioVars, mapVars, scanVars, saveVars, cfgVars,
                      triVars>>
  \/ \E b \in BOOLEAN :
       /\ instance
       /\ nAdded + nDrains + global_map_updates_ = 0
       /\ SetStoreUpdatedGlobalMap(b)
       /\ UNCHANGED <<imuVars, vioVars, mapVars, scanVars, saveVars, cfgVars,
                      triVars>>
  \/ \E p \in RosPositions, lidar_points \in BOOLEAN,
        submap_lidar \in BOOLEAN, submap_keypoints \in BOOLEAN :
       /\ nAdded < MaxRosMeasurements
       /\ AddMeasurementRos(p, lidar_points, submap_lidar, submap_keypoints)
       /\ UNCHANGED <<imuVars, vioVars, scanVars, saveVars, cfgVars,
                      triVars>>
  \/ \E global_lidar_map \in BOOLEAN, global_keypoints_map \in BOOLEAN :
       /\ global_map_updates_ < MaxUpdates
       /\ UpdateSubmapPosesRos(global_lidar_map, global_keypoints_map)
       /\ UNCHANGED <<imuVars, vioVars, scanVars, saveVars, cfgVars,
                      triVars>>
  \/ /\ nDrains < MaxDrains
     /\ GetRosMaps
     /\ UNCHANGED <<imuVars, vioVars, mapVars, scanVars, saveVars, cfgVars,
                      triVars>>

\* the loaders run in any order, each on any configuration
CfgNext ==
  \/ \E config \in GlobalMapConfigs :
       LoadGlobalMapConfig(config)
         /\ UNCHANGED <<imuVars, vioVars, mapVars, scanVars, saveVars,
                        rosVars, triVars>>
  \/ \E config \in GlobalMapRefinementConfigs :
       LoadGlobalMapRefinementConfig(config)
         /\ UNCHANGED <<imuVars, vioVars, mapVars, scanVars, saveVars,
                        rosVars, triVars>>
  \/ \E config \in ScanMatcher3DConfigs :
       LoadScanMatcher3DConfig(config)
         /\ UNCHANGED <<imuVars, vioVars, mapVars, scanVars, saveVars,
                        rosVars, triVars>>
  \/ \E config \in SLAMInitializationConfigs :
       LoadSLAMInitializationConfig(config)
         /\ UNCHANGED <<imuVars, vioVars, mapVars, scanVars, saveVars,
                        rosVars, triVars>>
  \/ \E config \in ImuPreintegrationConfigs :
       LoadImuPreintegrationConfig(config)
         /\ UNCHANGED <<imuVars, vioVars, mapVars, scanVars, saveVars,
                        rosVars, triVars>>

\* images are tracked, frames become keyframes and landmarks are
\* triangulated in any order
TriNext ==
  \/ \E seen \in SUBSET LandmarkIds :
       /\ tri_images < MaxTriStamp
       /\ TrackImage(seen)
       /\ UNCHANGED <<imuVars, vioVars, mapVars, scanVars, saveVars, rosVars,
                      cfgVars>>
  \/ \E stamp \in 1..tri_images :
       AddKeyframePose(stamp)
         /\ UNCHANGED <<imuVars, vioVars, mapVars, scanVars, saveVars,
                        rosVars, cfgVars>>
  \/ \E landmark_ids \in LandmarkIdLists,
        point \in [LandmarkIds -> {NoPoint} \cup Points] :
       /\ nTriangulations < MaxTriangulations
       /\ TriangulateLandmarks(landmark_ids, point)
       /\ UNCHANGED <<imuVars, vioVars, mapVars, scanVars, saveVars, rosVars,
                      cfgVars>>

SpecImu == Init /\ [][ImuNext]_vars

SpecVio == Init /\ [][VioNext]_vars

SpecMap == Init /\ [][MapNext]_vars

SpecReloc == Init /\ [][RelocNext]_vars

SpecScan == Init /\ [][ScanNext]_vars

SpecSave == Init /\ [][SaveNext]_vars

SpecExt == Init /\ [][ExtNext]_vars

SpecRos == Init /\ [][RosNext]_vars

SpecCfg == Init /\ [][CfgNext]_vars

SpecTri == Init /\ [][TriNext]_vars


(***************************************************************************)
(* Properties of the preintegrator (checked under SpecImu)                 *)
(***************************************************************************)

\* The statements below are read on calls during which no front() was read on
\* an empty queue (~oob), where the outcome of the code does not depend on an
\* indeterminate value; C5 is about those reads themselves.

\* the samples of buf with stamp after t, in order
After(buf, t) == LET Later(s) == s.t > t IN SelectSeq(buf, Later)

\* C1: the relative constraint returned by register_preintegrated_factor(t_j)
\* with anchor stamp t_i < t_j integrates exactly the pushed samples with stamp
\* in (t_i, t_j]: the one stamped t_j is in, the one stamped t_i is not.
\* (tx.rel[1] is the relative constraint: its two stamps and its samples.)
C1_ExactInterval ==
  (/\ last.op = "Register" /\ last.ok /\ ~tx.null /\ ~oob
   /\ tx.rel[1].i < tx.rel[1].j)
    => Range(tx.rel[1].data) =
         {s \in pushed : tx.rel[1].i < s.t /\ s.t <= tx.rel[1].j}

\* C3: a sample pushed with a stamp at or before the last stored one is
\* discarded, so the stored samples are strictly increasing in time in every
\* reachable state.
C3_StoredStrictlyIncreasing ==
  /\ StrictlyIncreasing(current_imu_data_buffer_)
  /\ StrictlyIncreasing(total_imu_data_buffer_)

\* C4: predict_pose(stamp_now) with stamp_now before the stamp at the front of
\* the working buffer returns false and leaves the working buffer, the total
\* buffer, the interval integrator's data, state i and state k unchanged.
C4_GetPoseNotReady ==
  [][\A t \in Stamps : \A g \in Garbage(t) :
       (/\ last'.op = "GetPose"
        /\ current_imu_data_buffer_ # <<>>
        /\ t < Head(current_imu_data_buffer_).t
        /\ GetPose(t, g))
         => (/\ last'.ok = FALSE
             /\ ~pose_out'.valid
             /\ UNCHANGED <<current_imu_data_buffer_, total_imu_data_buffer_,
                            pre_integrator_ij_data, imu_state_i_,
                            imu_state_k_>>)]_vars

\* C4 witness: a refused predict_pose on a preintegrator that holds buffered
\* samples and already integrated ones
C4_Witness ==
  /\ last = [op |-> "GetPose", ok |-> FALSE]
  /\ ~oob
  /\ current_imu_data_buffer_ # <<>>
  /\ pre_integrator_ij_data # <<>>
  /\ imu_state_k_ # imu_state_i_

\* C5: set_start, predict_pose or register_preintegrated_factor asked while the
\* working buffer holds no sample answers NOT_READY and changes nothing, and
\* never reads past the end of the buffer.
C5_EmptyBufferNotReady ==
  [][(/\ current_imu_data_buffer_ = <<>>
      /\ ~oob
      /\ last'.op \in {"SetStart", "GetPose", "Register"}
      /\ nCalls' = nCalls + 1)
       => (/\ ~oob'
           /\ last'.op # "SetStart" => last'.ok = FALSE
           /\ UNCHANGED imuObject)]_vars

\* C6: set_start(stamp_i) drops from both buffers every sample with stamp at or
\* before stamp_i, keeps the later ones in order, and sets state i and state k
\* to the state given at stamp_i.
C6_SetStartDropsUpToStamp ==
  [][\A t \in Stamps, a \in StartArgs : \A g \in Garbage(t) :
       (last'.op = "SetStart" /\ ~oob' /\ SetStart(t, a[1], a[2], a[3], g))
         => (/\ current_imu_data_buffer_' = After(current_imu_data_buffer_, t)
             /\ total_imu_data_buffer_' = After(total_imu_data_buffer_, t)
             /\ imu_state_i_'.stamp = t
             /\ imu_state_k_' = imu_state_i_')]_vars

\* C7: over any sequence of register calls the prior on state i is emitted in
\* exactly one transaction, the first one returned; a call rejected because the
\* stamp precedes the buffer front does not consume the first-window flag.
C7_PriorExactlyOnce ==
  /\ priorAt = IF nTx = 0 THEN {} ELSE {1}
  /\ nTx = 0 => first_window_

\* C7 witness: a call rejected while the first-window flag was up, then two
\* returned transactions, the first of them carrying the prior
C7_Witness ==
  /\ ~oob
  /\ rejectedFirst
  /\ nTx = 2
  /\ priorAt = {1}
  /\ ~tx.null

\* C8: register_preintegrated_factor(t_j) followed at once by predict_pose(t_j)
\* succeeds and returns the pose of the state j committed as the new anchor.
C8_PredictAfterRegister ==
  [][(last.op = "Register" /\ last.ok /\ ~oob')
       => \A g \in Garbage(imu_state_i_.stamp) :
            GetPose(imu_state_i_.stamp, g)
              => (/\ last'.ok
                  /\ pose_out' = [valid |-> TRUE, q |-> imu_state_i_.q,
                                  p |-> imu_state_i_.p])]_vars

\* C9: register_preintegrated_factor(t_j) returns an empty transaction and does
\* not roll the anchor forward when t_j <= t_i or no buffered sample falls in
\* the interval.
C9_EmptyIntervalEmptyTransaction ==
  [][\A t \in Stamps, a \in RegisterArgs : \A g \in Garbage(t) :
       (/\ last'.op = "Register"
        /\ ~oob'
        /\ RegisterNewImuPreintegratedFactor(t, a[1], a[2], g)
        /\ \/ t <= imu_state_i_.stamp
           \/ ~\E s \in Range(pre_integrator_ij_data)
                          \cup Range(current_imu_data_buffer_) :
                 imu_state_i_.stamp < s.t /\ s.t <= t)
         => (tx'.null /\ imu_state_i_' = imu_state_i_)]_vars

\* C10: after update_from_graph on a graph holding the anchor's five variables
\* state i holds the graph's values, state k equals state i, and the working
\* buffer equals the total buffer, no sample of which is earlier than the
\* anchor stamp.
C10_UpdateGraphRefill ==
  (last = [op |-> "UpdateGraph", ok |-> TRUE] /\ ~oob)
    => /\ \A f \in {"p", "q", "v", "bg", "ba"} : imu_state_i_[f] \in GraphVals
       /\ imu_state_k_ = imu_state_i_
       /\ current_imu_data_buffer_ = total_imu_data_buffer_
       /\ \A s \in Range(total_imu_data_buffer_) : s.t >= imu_state_i_.stamp

\* C11: a successful register_preintegrated_factor(t_j, q_j?, p_j?) rolls the
\* anchor forward (anchor stamp t_j, state k equal to the anchor, interval
\* integrator empty); with q_j and p_j both supplied the new anchor and the
\* state j carried by the transaction hold q_j, p_j and the chord velocity
\* (p_j - p_i) / (t_j - t_i), otherwise both hold the predicted state.
C11_AnchorRolledForward ==
  [][\A t \in Stamps, a \in RegisterArgs : \A g \in Garbage(t) :
       (/\ last'.op = "Register"
        /\ last'.ok
        /\ ~oob'
        /\ RegisterNewImuPreintegratedFactor(t, a[1], a[2], g))
         => LET state_j == tx'.vars[Len(tx'.vars)]
                data == pre_integrator_ij_data
                          \o Popped(current_imu_data_buffer_, t)
                predicted ==
                  PredictState(Integrate(data, t, imu_state_i_.bg,
                                         imu_state_i_.ba),
                               imu_state_i_, t)
                chord == Quot(a[2][1] - imu_state_i_.p,
                              t - imu_state_i_.stamp)
            IN /\ imu_state_i_'.stamp = t
               /\ imu_state_k_' = imu_state_i_'
               /\ pre_integrator_ij_data' = <<>>
               /\ IF a[1] # <<>> /\ a[2] # <<>>
                    THEN /\ imu_state_i_'.q = a[1][1]
                         /\ imu_state_i_'.p = a[2][1]
                         /\ imu_state_i_'.v = chord
                         /\ state_j.q = a[1][1]
                         /\ state_j.p = a[2][1]
                         /\ state_j.v = chord
                    ELSE /\ imu_state_i_' = predicted
                         /\ state_j = predicted]_vars


(***************************************************************************)
(* Properties of the front-end (checked under SpecVio)                     *)
(***************************************************************************)

\* C2: for every interleaving of image and IMU callbacks with monotonic
\* stamps, an image stamped j is handed to the tracker (and on to the
\* initializer or to localization) only after every IMU message with stamp
\* <= j has been forwarded to the initializer or the preintegrator; no such
\* message is delivered or forwarded after the image was processed.
C2_ImuForwardedBeforeImage ==
  \A k \in DOMAIN tracker_images : \A n \in DOMAIN imu_arrived :
    imu_arrived[n] <= tracker_images[k].t => n <= tracker_images[k].nfwd

\* C2 witness: an image that waited in the queue (a later image was delivered
\* before it was processed) and was processed after an IMU message carrying
\* its own stamp had been forwarded, once the front-end was initialized
C2_Witness ==
  /\ initialized
  /\ \E k \in DOMAIN tracker_images :
       /\ tracker_images[k].nfwd >= 1
       /\ imu_arrived[tracker_images[k].nfwd] = tracker_images[k].t
       /\ "preintegrator" \in Range(imu_forwarded)
  /\ image_buffer_ # <<>>

\* C12: is_keyframe answers true if and only if the image is at least T_min
\* after the last keyframe and the mean parallax exceeds theta_parallax, or
\* fewer than theta_tracks_drop landmarks are triangulated, or added_since_kf
\* is window_size - 1; seen on every image processed after initialization,
\* whose stamp is taken as a keyframe exactly when the answer is true.
C12_IsKeyframeIff ==
  [][(/\ initialized
      /\ Len(tracker_images') = Len(tracker_images) + 1)
       => LET t == img_arrived'[Len(img_arrived')]
              img_time == Head(Append(image_buffer_, t))
          IN \A f \in FrameData :
               processImage(t, 0, f)
                 => ((keyframes_' = Append(keyframes_, img_time))
                     <=> (/\ img_time - cur_kf_time_
                               >= keyframe_min_time_in_seconds
                          /\ \/ /\ f.matched > 0
                                /\ f.moved > keyframe_parallax
                             \/ f.triangulated < keyframe_tracks_drop
                             \/ added_since_kf_ = window_size - 1))]_vars

\* C12 witness: after initialization one image was refused as a keyframe and
\* a later one was taken, with the counter back at zero
C12_Witness ==
  /\ initialized
  /\ added_since_kf_ = 0
  /\ Len(odom_published) >= 2
  /\ Len(keyframes_) >= 2
  /\ cur_kf_time_ = odom_published[Len(odom_published)].t
  /\ Len(keyframes_) <= Len(odom_published)

\* C13: localize(stamp) with fewer than 3 triangulated landmarks visible fails
\* and the frame is skipped: nothing is published on the odometry topic and no
\* keyframe decision is taken for it (keyframe list, last keyframe stamp and
\* the counter stay as they were); only a pose from at least 3 correspondences
\* is ever published.
C13_UnderconstrainedSkipped ==
  [][(/\ initialized
      /\ Len(tracker_images') = Len(tracker_images) + 1)
       => LET t == img_arrived'[Len(img_arrived')]
          IN \A f \in FrameData :
               (processImage(t, 0, f) /\ f.triangulated < MinCorrespondences)
                 => /\ UNCHANGED <<odom_published, keyframes_, cur_kf_time_,
                                   added_since_kf_>>
                    /\ \A k \in DOMAIN odom_published' :
                         odom_published'[k].pose # "Zero"]_vars

\* C14: on initialization success the handoff sends exactly one transaction
\* holding every variable and every constraint of the initializer's local
\* graph, so that every variable a copied constraint involves is in the
\* transaction; from then on IMU messages go to the preintegrator and no
\* longer to the initializer.
C14_HandoffWholeGraph ==
  /\ initialized
       => /\ Len(sent_transactions) = 1
          /\ sent_transactions[1].variables = local_graph.variables
          /\ sent_transactions[1].constraints = local_graph.constraints
          /\ \A c \in sent_transactions[1].constraints :
               c.involves \subseteq sent_transactions[1].variables
  /\ ~initialized => "preintegrator" \notin Range(imu_forwarded)
  /\ \A m, n \in DOMAIN imu_forwarded :
       (m < n /\ imu_forwarded[m] = "preintegrator")
         => imu_forwarded[n] = "preintegrator"

\* C15: a failed initialization attempt leaves the initializer uninitialized
\* with the stamps and IMU messages it had accumulated, the new stamp appended
\* behind them, and sends no transaction; and every image processed while
\* uninitialized at least InitKeyframeSpacing after the last candidate makes
\* another attempt.
C15_FailurePreservesBuffers ==
  [][/\ (/\ ~initialized
         /\ ~initialized'
         /\ initializer_keyframes_' # initializer_keyframes_)
        => /\ Len(initializer_keyframes_') = Len(initializer_keyframes_) + 1
           /\ SubSeq(initializer_keyframes_', 1, Len(initializer_keyframes_))
                = initializer_keyframes_
           /\ initializer_keyframes_'[Len(initializer_keyframes_')]
                = tracker_images'[Len(tracker_images')].t
           /\ initializer_imu_buffer_' = initializer_imu_buffer_
           /\ sent_transactions' = sent_transactions
     /\ (/\ ~initialized
         /\ Len(tracker_images') = Len(tracker_images) + 1
         /\ tracker_images'[Len(tracker_images')].t - cur_kf_time_
              >= InitKeyframeSpacing)
        => Len(initializer_keyframes_') = Len(initializer_keyframes_) + 1
    ]_vars

\* a second attempt has just failed with IMU messages queued in the initializer
C15_Witness ==
  /\ ~initialized
  /\ Len(initializer_keyframes_) >= 2
  /\ initializer_imu_buffer_ # <<>>
  /\ sent_transactions = <<>>
  /\ tracker_images # <<>>
  /\ initializer_keyframes_[Len(initializer_keyframes_)]
       = tracker_images[Len(tracker_images)].t

\* C16: the keyframe stamps are strictly increasing, so no stamp has two
\* keyframes, through both phases; the stamps pushed while uninitialized (the
\* ones the initializer holds) are the first ones of the list and consecutive
\* ones are at least InitKeyframeSpacing apart.
C16_KeyframesStrictlyIncreasing ==
  /\ \A m \in 1..Len(keyframes_) : \A n \in 1..Len(keyframes_) :
       m < n => keyframes_[m] < keyframes_[n]
  /\ Len(initializer_keyframes_) <= Len(keyframes_)
  /\ \A i \in 1..Len(initializer_keyframes_) :
       /\ initializer_keyframes_[i] = keyframes_[i]
       /\ i > 1 => initializer_keyframes_[i] - initializer_keyframes_[i - 1]
                     >= InitKeyframeSpacing

\* two candidates pushed while uninitialized and a keyframe chosen afterwards
C16_Witness ==
  /\ initialized
  /\ Len(initializer_keyframes_) >= 2
  /\ Len(keyframes_) > Len(initializer_keyframes_)


(***************************************************************************)
(* Properties of the global map (checked under SpecMap)                    *)
(***************************************************************************)

\* a step in which the online_submaps_ version has added a measurement at p
AddsAt(p, has_data) ==
  /\ nAdded' = nAdded + 1
  /\ submaps_' = submaps_
  /\ online_submaps_' = Measured(online_submaps_, p, has_data)

\* C17: a measurement added at position p to the online_submaps_ version is
\* stored in a submap whose anchor is at most submap_size from p; and when the
\* anchors of the previous and of the latest submap are both at most
\* submap_size from p, it is stored in the previous one.
C17_AssignedWithinSubmapSize ==
  [][\A p \in Positions :
         AddsAt(p, TRUE) =>
           LET size == Len(online_submaps_) IN
           /\ \A k \in 1..Len(online_submaps_') :
                (/\ p \in online_submaps_'[k].measurements
                 /\ k <= size => p \notin online_submaps_[k].measurements)
                  => Norm(p, online_submaps_'[k].T_WORLD_SUBMAP_INIT)
                       <= submap_size
           /\ (/\ size >= 2
               /\ WithinOrAt(online_submaps_, size - 2, p)
               /\ WithinOrAt(online_submaps_, size - 1, p))
                => /\ Len(online_submaps_') = size
                   /\ p \in online_submaps_'[size - 1].measurements
                   /\ online_submaps_'[size] = online_submaps_[size]
    ]_vars

\* C18: AddMeasurement appends a submap, anchored at the pose it was called
\* with, exactly when there is no submap or the position is farther than
\* submap_size from the anchor of the latest submap and, when there are two or
\* more, also from the anchor of the one before it; otherwise the list keeps
\* its length and its anchors.
C18_NewSubmapExactlyWhenBeyond ==
  [][\A p \in Positions : \A has_data \in BOOLEAN :
         AddsAt(p, has_data) =>
           LET size == Len(online_submaps_)
               beyond ==
                 \/ size = 0
                 \/ /\ size = 1
                    /\ Norm(p, Anchor(online_submaps_, 0)) > submap_size
                 \/ /\ size >= 2
                    /\ Norm(p, Anchor(online_submaps_, size - 2)) > submap_size
                    /\ Norm(p, Anchor(online_submaps_, size - 1)) > submap_size
           IN
           IF beyond
             THEN /\ Len(online_submaps_') = size + 1
                  /\ Anchor(online_submaps_', size) = p
                  /\ \A k \in 0..(size - 1) :
                       Anchor(online_submaps_', k) = Anchor(online_submaps_, k)
             ELSE /\ Len(online_submaps_') = size
                  /\ \A k \in 0..(size - 1) :
                       Anchor(online_submaps_', k) = Anchor(online_submaps_, k)
    ]_vars

\* C19: once every pose of the straight trajectory from 0 to TrajectoryEnd has
\* been fed, there are exactly 5 submaps and every anchor is a multiple of
\* submap_size.
C19_FiveSubmaps ==
  (spacing > 0 /\ nAdded * spacing > TrajectoryEnd)
    => /\ Len(online_submaps_) = 5
       /\ \A k \in 1..Len(online_submaps_) :
            online_submaps_[k].T_WORLD_SUBMAP_INIT % submap_size = 0

\* what a transaction holds about the submap with id k: its priors and the
\* relative constraints that end at it
PriorsOn(transaction, k) == {c \in transaction.priors : c.on = k}
ConstraintsTo(transaction, k) == {c \in transaction.constraints : c.to = k}

\* the returned transaction is the stated one if the list went from old to new
InitiatedAsStated(old, new) ==
  Len(new) = Len(old) + 1
    => LET current == Len(new) - 1 IN
       /\ ~new_transaction'.null
       /\ current \in new_transaction'.variables
       /\ IF current = 0
            THEN /\ Cardinality(PriorsOn(new_transaction', 0)) = 1
                 /\ new_transaction'.constraints = {}
                 /\ map_fault' = map_fault
            ELSE /\ new_transaction'.priors = {}
                 /\ Cardinality(ConstraintsTo(new_transaction', current)) = 1
                 /\ \A c \in ConstraintsTo(new_transaction', current) :
                      /\ c.from = current - 1
                      /\ c.covariance = "local_mapper_covariance"

\* C20: whenever either version appends a submap, the transaction returned
\* holds the pose variables of the new submap; for the first submap exactly
\* one prior on it and no relative constraint, and nothing was read before the
\* first element; for a later submap no prior and exactly one relative
\* constraint, from the submap just before it, with local_mapper_covariance.
C20_InitiateNewSubmapPose ==
  [][(nAdded' = nAdded + 1 /\ map_fault' # "crashed")
       => /\ InitiatedAsStated(online_submaps_, online_submaps_')
          /\ InitiatedAsStated(submaps_, submaps_')
    ]_vars


(***************************************************************************)
(* Properties of loop closure and relocalization (checked under SpecReloc, *)
(* those about the submaps_ version under SpecMap)                         *)
(***************************************************************************)

\* C21: over AddMeasurement, TriggerLoopClosure, UpdateSubmapPoses and
\* ProcessRelocRequest the list of online submaps only grows, keeping the
\* anchors it has, and only by one submap in a call of AddMeasurement; a
\* submap is appended only when a transaction carrying the pose variables of
\* the one before it has been returned; and AddMeasurement returns a
\* transaction exactly when it has appended a submap.
C21_CreationMonotonic ==
  [][LET size == Len(online_submaps_) IN
     /\ Len(online_submaps_') >= size
     /\ Len(online_submaps_') <= size + 1
     /\ \A k \in 0..(size - 1) :
          Anchor(online_submaps_', k) = Anchor(online_submaps_, k)
     /\ Len(online_submaps_') = size + 1
          => /\ nAdded' = nAdded + 1
             /\ size >= 1 => (size - 1) \in anchors_returned
             /\ size \in new_transaction'.variables
     /\ nAdded' = nAdded + 1
          => (~new_transaction'.null <=> Len(online_submaps_') = size + 1)
    ]_vars

\* three submaps, each announced, with a loop closure, a pose update and a
\* relocalization in between
C21_Witness ==
  /\ Len(online_submaps_) = 3
  /\ anchors_returned = {0, 1, 2}
  /\ lc_emitted # {}
  /\ global_map_updates_ >= 1
  /\ reloc_reply.returned

\* the loop closure constraints of a transaction
LoopClosures(transaction) ==
  {c \in transaction.constraints : c.source = "RelocRefinement"}

\* C22: whatever the candidate search returns, no returned transaction holds
\* a loop closure constraint between a query submap and a match whose indices
\* differ by at most 1.
C22_NoAdjacentLoopClosure ==
  \A c \in LoopClosures(new_transaction) :
    c.from - c.to > 1 \/ c.to - c.from > 1

\* C23: every loop closure constraint of the online_submaps_ version was
\* refined from the estimate the candidate search returned for its own match,
\* however many candidates before it the filter took out.
C23_RefinedFromOwnEstimate ==
  submaps_ = <<>> =>
    \A c \in LoopClosures(new_transaction) : c.estimate = c.from

\* C24: a loop-closure candidate whose refinement fails is passed over
\* without error: once a submap exists no call of either version ends in a
\* fault, and every call that appends a submap still returns the transaction
\* with the pose variables of the new submap.
C24_FailedRefinementSkipped ==
  [][/\ Len(submaps_) >= 1 => map_fault' = map_fault
     /\ \A old \in {online_submaps_, submaps_} :
          \A new \in {online_submaps_', submaps_'} :
            (/\ old # new
             /\ Len(old) >= 1
             /\ Len(new) = Len(old) + 1
             /\ SubSeq(new, 1, Len(old)) = old)
              => /\ ~new_transaction'.null
                 /\ Len(old) \in new_transaction'.variables
    ]_vars

\* C25: over AddMeasurement and TriggerLoopClosure no (match, query) pair of
\* submaps has had a loop closure constraint returned for it more than once.
C25_OneLoopClosurePerPair == lc_repeated = {}

\* the candidates of a request in the order they are gone through: those of
\* the offline search, then those of the online search; ok says whether the
\* refinement of the candidate succeeds
CandidateOrder(off, off_refined, on, on_refined) ==
  [i \in 1..(Len(off) + Len(on)) |->
     IF i <= Len(off)
       THEN [type |-> "OFFLINE", index |-> off[i], ok |-> off[i] \in off_refined]
       ELSE [type |-> "ONLINE", index |-> on[i - Len(off)],
             ok |-> on[i - Len(off)] \in on_refined]]

\* the candidate is the submap recorded as active
RecordedActive(c) ==
  c.index = active_submap_id_ /\ c.type = active_submap_type_

\* the request is answered with candidate c
AnsweredWith(c) ==
  /\ reloc_reply'.returned
  /\ reloc_reply'.submap_msg.type = c.type
  /\ reloc_reply'.submap_msg.index = c.index

\* the request fails and leaves submap_msg as it was
Unanswered ==
  /\ ~reloc_reply'.returned
  /\ reloc_reply'.submap_msg = NoSubmap

\* C26 as stated: a request is answered with the first candidate, offline ones
\* before online ones, whose refinement succeeds, and fails, leaving
\* submap_msg as it was, only when no candidate's refinement succeeds.
C26_FirstRefinedAnswers ==
  [][nRequests' = nRequests + 1 =>
       \A off \in SearchOutputs(offline_submaps_, MaxCandidates) :
         \A off_refined \in SUBSET Range(off) :
           \A on \in SearchOutputs(Len(online_submaps_), MaxCandidates) :
             \A on_refined \in SUBSET Range(on) :
               ProcessRelocRequest(off, off_refined, on, on_refined) =>
                 LET order == CandidateOrder(off, off_refined, on, on_refined)
                     succeed == {i \in 1..Len(order) : order[i].ok}
                 IN IF succeed = {}
                      THEN Unanswered
                      ELSE \E i \in succeed :
                             /\ \A j \in succeed : i <= j
                             /\ AnsweredWith(order[i])
    ]_vars

\* C26 amended: the same, except that going through the candidates stops, with
\* the request failing and submap_msg as it was, at a candidate that is
\* recorded as the active submap and comes before every candidate whose
\* refinement succeeds.
C26_FirstRefinedUnlessActive ==
  [][nRequests' = nRequests + 1 =>
       \A off \in SearchOutputs(offline_submaps_, MaxCandidates) :
         \A off_refined \in SUBSET Range(off) :
           \A on \in SearchOutputs(Len(online_submaps_), MaxCandidates) :
             \A on_refined \in SUBSET Range(on) :
               ProcessRelocRequest(off, off_refined, on, on_refined) =>
                 LET order == CandidateOrder(off, off_refined, on, on_refined)
                     stop == {i \in 1..Len(order) :
                                order[i].ok \/ RecordedActive(order[i])}
                 IN IF stop = {}
                      THEN Unanswered
                      ELSE \E i \in stop :
                             /\ \A j \in stop : i <= j
                             /\ IF RecordedActive(order[i])
                                  THEN Unanswered
                                  ELSE AnsweredWith(order[i])
    ]_vars

\* a request answered with an online submap after the refinement of an
\* offline candidate has failed
C26_Witness ==
  /\ offline_submaps_ > 0
  /\ reloc_reply.returned
  /\ reloc_reply.submap_msg.type = "ONLINE"
  /\ nRequests >= 2

\* the candidate is the submap that was last handed out and is still active
Active(c) == c.index = served.index /\ c.type = served.type

\* C27: a request whose matched submap (the first candidate, offline ones
\* before online ones, that is the active submap or whose refinement
\* succeeds) is the active submap, of the same index and the same kind,
\* returns no update and leaves the active submap as it was; so the second of
\* two identical requests with no loop closure in between returns no update.
C27_ActiveMatchNoUpdate ==
  [][nRequests' = nRequests + 1 =>
       \A off \in SearchOutputs(offline_submaps_, MaxCandidates) :
         \A off_refined \in SUBSET Range(off) :
           \A on \in SearchOutputs(Len(online_submaps_), MaxCandidates) :
             \A on_refined \in SUBSET Range(on) :
               ProcessRelocRequest(off, off_refined, on, on_refined) =>
                 LET order == CandidateOrder(off, off_refined, on, on_refined)
                     stop == {i \in 1..Len(order) :
                                order[i].ok \/ Active(order[i])}
                 IN \A i \in stop :
                      ((\A j \in stop : i <= j) /\ Active(order[i]))
                        => (Unanswered /\ served' = served)
    ]_vars

\* a step is a reloc request answered with an offline submap
OfflineRefined ==
  /\ nRequests' = nRequests + 1
  /\ reloc_reply'.returned
  /\ reloc_reply'.submap_msg.type = "OFFLINE"

\* C28: the offline alignment is computed at the first successful offline
\* refinement and cached: the found flag is set by that request and by nothing
\* else, with the transform computed from that request and the submap it is
\* answered with; once the flag is set, no reloc request, loop closure or
\* pose update changes the flag or the transform; until it is set the
\* transform is the default one, and the offline search is made with it.
C28_AlignmentCached ==
  [][/\ T_WORLDLM_WORLDOFF_found_
          => /\ T_WORLDLM_WORLDOFF_found_'
             /\ T_WORLDLM_WORLDOFF_' = T_WORLDLM_WORLDOFF_
     /\ ~T_WORLDLM_WORLDOFF_found_
          => /\ T_WORLDLM_WORLDOFF_ = Identity
             /\ T_WORLDLM_WORLDOFF_found_' <=> OfflineRefined
             /\ T_WORLDLM_WORLDOFF_found_'
                  => T_WORLDLM_WORLDOFF_' =
                       Alignment(nRequests', reloc_reply'.submap_msg.index)
             /\ nRequests' = nRequests + 1
                  => reloc_reply'.searched_with = Identity
             /\ OfflineRefined
                  => reloc_reply'.submap_msg.T_WORLDLM_WORLDOFF =
                       T_WORLDLM_WORLDOFF_'
    ]_vars

\* a reloc request is answered with an offline submap after the alignment was
\* cached by an earlier one, a loop closure and a pose update having happened
C28_Witness ==
  /\ T_WORLDLM_WORLDOFF_found_
  /\ reloc_reply.returned
  /\ reloc_reply.submap_msg.type = "OFFLINE"
  /\ T_WORLDLM_WORLDOFF_.request < nRequests
  /\ reloc_reply.submap_msg.T_WORLDLM_WORLDOFF = T_WORLDLM_WORLDOFF_
  /\ lc_emitted # {}
  /\ global_map_updates_ >= 1

\* the relative-pose constraints of a transaction
RelativePoses(transaction) ==
  {c \in transaction.constraints : c.type = "RelativePose3DStamped"}

\* the n most recent of the scans registered so far
MostRecent(n) ==
  Range(SubSeq(registered_scans, 1, Smaller(n, Len(registered_scans))))

\* the transaction returned for the m-th registered scan (m - 1 scans
\* registered before it) has the new scan's stamp, adds the new scan's
\* position and orientation and nothing else, and has min(n, m - 1)
\* relative-pose constraints, each from one of the most recent scans
RegisteredAsStated(stamp) ==
  LET n == Smaller(num_neighbors, Len(registered_scans)) IN
  /\ ~scan_transaction'.null
  /\ scan_transaction'.stamp = stamp
  /\ scan_transaction'.variables =
       {<<"position", stamp>>, <<"orientation", stamp>>}
  /\ Cardinality(RelativePoses(scan_transaction')) = n
  /\ \A c \in RelativePoses(scan_transaction') :
       c.to = stamp /\ c.from \in MostRecent(num_neighbors)

KeysReadBy(version) == IF version = 1 THEN KeysRead ELSE KeysRead2

\* C32: SaveData writes every key that LoadJson reads; Load of what was saved
\* into a fresh instance succeeds and loads all saved submaps; and what the
\* loaded instance saves has the same parameters and the same submaps under
\* the same names.
C32_SaveLoadRoundTrip ==
  /\ saved.exists => KeysReadBy(saved.version) \subseteq DOMAIN saved.params
  /\ loaded.status # "none"
       => /\ loaded.status = "true"
          /\ Len(loaded.submaps) = Cardinality(DOMAIN saved.submaps)
  /\ resaved.exists
       => /\ resaved.params = saved.params
          /\ resaved.submaps = saved.submaps

(***************************************************************************)
(* Properties of the extrinsics registry (checked under SpecExt) and of    *)
(* the ROS maps of the global map (checked under SpecRos)                  *)
(***************************************************************************)

\* a caller's GetTransform has just returned
Got == nGets' = nGets + 1 /\ got'.op = "GetTransform"

\* under dynamic mode a get of a transform the source has stores the value
\* of the source and gives it to the caller
RefreshedWhenDynamic ==
  (~static_extrinsics_ /\ Got) =>
    LET pair == <<got'.to_frame, got'.from_frame>> IN
    tf_listener_[pair] # NoTransform =>
      /\ got'.ok
      /\ got'.T = tf_listener_[pair]
      /\ extrinsics_'[pair] = tf_listener_[pair]

\* what a caller was given is the caller's own: it changes only by that
\* caller's next get, and a copy of the registry only by the next
\* GetExtrinsicsCopy, whatever is stored in the registry meanwhile
CallerHoldsCopy ==
  /\ nGets' = nGets => (got' = got /\ held' = held)
  /\ Got => held' = (IF got.ok THEN got.T ELSE held)
  /\ extrinsics_' # extrinsics_ => extrinsics_copy' = extrinsics_copy

\* C33: under static mode no get changes the stored transforms; under
\* dynamic mode each get refreshes the stored transform from the source
\* before it returns; the caller receives a copy in both modes.
C33_StaticReadOnly ==
  [][instance =>
       /\ static_extrinsics_ => extrinsics_' = extrinsics_
       /\ RefreshedWhenDynamic
       /\ CallerHoldsCopy]_vars

\* C33 as the code has it: under static mode a transform that is stored is
\* never changed by a get, and a transform that is not stored yet is filled
\* in from the source by the first get that finds it; under dynamic mode
\* each get that finds the transform refreshes the stored one; the caller
\* receives a copy in both modes.
C33_StoredNeverOverwritten ==
  [][instance =>
       /\ static_extrinsics_ =>
            \A pair \in FramePairs :
              IF extrinsics_[pair] # NoTransform
                THEN extrinsics_'[pair] = extrinsics_[pair]
                ELSE extrinsics_'[pair] \in {NoTransform, tf_listener_[pair]}
       /\ (static_extrinsics_ /\ Got) =>
            LET pair == <<got'.to_frame, got'.from_frame>> IN
            /\ got'.ok <=> (extrinsics_[pair] # NoTransform
                              \/ tf_listener_[pair] # NoTransform)
            /\ got'.ok => got'.T = extrinsics_'[pair]
       /\ RefreshedWhenDynamic
       /\ CallerHoldsCopy]_vars

\* a static registry has answered from a stored transform that the source
\* has since replaced, and an earlier caller holds another transform
C33_Witness ==
  /\ static_extrinsics_
  /\ got.op = "GetTransform"
  /\ got.ok
  /\ got.T # tf_listener_[<<got.to_frame, got.from_frame>>]
  /\ extrinsics_[<<got.to_frame, got.from_frame>>] = got.T
  /\ nGets >= 2

\* the odometry frame initializer stores the pose of exactly the messages
\* whose transform could be had, in whatever order they came
OdometrySkipsOnlyUnavailable ==
  /\ \A i \in 1..Len(odometry_seen) :
       odometry_seen[i].skipped <=> ~odometry_seen[i].available
  /\ poses_ = {m.seq : m \in {m \in Range(odometry_seen) : ~m.skipped}}

\* C34: a lookup of an unavailable transform returns the failure flag and
\* leaves the stored extrinsics alone, and the global map skips only the
\* measurement concerned: it queues no scan for it, and it queues the scan
\* of every later measurement with lidar points once the transform can be
\* had, as long as storing new scans is what was asked for.
C34_SkipsOnlyAffected ==
  [][\A p \in RelocPositions, lidar_points \in BOOLEAN,
        submap_lidar \in BOOLEAN, submap_keypoints \in BOOLEAN :
       AddMeasurementRos(p, lidar_points, submap_lidar, submap_keypoints) =>
         /\ ~GetT_BASELINK_LIDAR.ok =>
              /\ extrinsics_' = extrinsics_
              /\ ros_new_scans_' = ros_new_scans_
         /\ (scans_requested /\ lidar_points /\ GetT_BASELINK_LIDAR.ok) =>
              /\ new_scans_counter_' = new_scans_counter_ + 1
              /\ ros_new_scans_' # <<>>
              /\ ros_new_scans_'[Len(ros_new_scans_')].seq
                   = new_scans_counter_]_vars

\* the last n entries of a queue
LastN(queue, n) ==
  SubSeq(queue, IF Len(queue) > n THEN Len(queue) - n + 1 ELSE 1, Len(queue))

\* where a map of each type comes in what GetRosMaps returns
Rank(type) ==
  CASE type = "LIDARNEW" -> 1
    [] type \in {"LIDARSUBMAP", "VISUALSUBMAP"} -> 2
    [] type = "LIDARGLOBALMAP" -> 3
    [] type = "VISUALGLOBALMAP" -> 4

\* the maps waiting to be returned
Waiting ==
  Range(ros_new_scans_) \cup Range(ros_submaps_)
    \cup ({ros_global_lidar_map_, ros_global_keypoints_map_} \ {NullRosMap})

\* C39: the queues of outgoing ROS maps never hold more than their maximum,
\* AddRosSubmap and AddNewRosScan keep the newest entries and drop the
\* oldest, and GetRosMaps returns the new scans, then the submaps, then the
\* pending global lidar and keypoint maps, each queue in its order, leaves
\* the queues empty and the pending maps cleared, and returns no map that
\* was returned before.
C39_QueuesBoundedAndDrained ==
  [][/\ Len(ros_submaps_') <= max_num_ros_submaps_
     /\ Len(ros_new_scans_') <= max_num_new_scans_
     /\ \A p \in RelocPositions, lidar_points \in BOOLEAN,
           submap_lidar \in BOOLEAN, submap_keypoints \in BOOLEAN :
          (/\ nAdded' = nAdded + 1
           /\ AddMeasurementRos(p, lidar_points, submap_lidar,
                                submap_keypoints))
            =>
            LET submaps == SelectSeq(ros_submaps_', LAMBDA m : m.id > made)
                scans == SelectSeq(ros_new_scans_', LAMBDA m : m.id > made)
                new_submaps ==
                  IF store_newly_completed_submaps_
                       /\ Len(online_submaps_') > Len(online_submaps_)
                       /\ Len(online_submaps_') > 1
                    THEN (IF submap_lidar THEN 1 ELSE 0)
                           + (IF submap_keypoints THEN 1 ELSE 0)
                    ELSE 0
                new_scans == new_scans_counter_' - new_scans_counter_
            IN
            /\ Len(submaps) = new_submaps
            /\ Len(scans) = new_scans
            /\ ros_submaps_' =
                 LastN(ros_submaps_, max_num_ros_submaps_ - new_submaps)
                   \o submaps
            /\ ros_new_scans_' =
                 LastN(ros_new_scans_, max_num_new_scans_ - new_scans)
                   \o scans
     /\ nDrains' = nDrains + 1 =>
          /\ Range(maps_vector') = Waiting
          /\ Len(maps_vector') = Cardinality(Waiting)
          /\ \A i \in 1..Len(maps_vector'), j \in 1..Len(maps_vector') :
               i < j =>
                 /\ Rank(maps_vector'[i].type) <= Rank(maps_vector'[j].type)
                 /\ Rank(maps_vector'[i].type) = Rank(maps_vector'[j].type)
                      => maps_vector'[i].id < maps_vector'[j].id
          /\ ros_new_scans_' = <<>>
          /\ ros_submaps_' = <<>>
          /\ ros_global_lidar_map_' = NullRosMap
          /\ ros_global_keypoints_map_' = NullRosMap
          /\ {m.id : m \in Range(maps_vector')} \cap ros_returned = {}]_vars

\* maps were returned twice over, and some map was dropped from a full
\* queue before it could be returned
C39_Witness ==
  /\ nDrains = 2
  /\ Len(maps_vector) >= 2
  /\ Cardinality(ros_returned) > Len(maps_vector)
  /\ made > Cardinality(ros_returned) + Cardinality(Waiting)

(***************************************************************************)
(* Properties of the configuration loaders (checked under SpecCfg)         *)
(***************************************************************************)

\* what is wrong with a configuration
Malformed(config) ==
  \/ ~config.readable
  \/ config.local_mapper_covariance_diag # 6
  \/ config.reloc_covariance_diag # 6
  \/ config.num_neighbors < 1
  \/ config.cov_prior_noise <= 0
  \/ config.init_mode \notin {"VISUAL", "LIDAR", "FRAMEINIT"}

\* C35: every loader aborts on a configuration that is missing or malformed
\* (unreadable file, covariance diagonal of the wrong length, num_neighbors
\* below 1, prior noise that is not positive, init_mode outside VISUAL, LIDAR,
\* FRAMEINIT) instead of going on with defaults, and accepts each of the
\* three init modes without an error.
C35_ConfigErrorsFatal ==
  \A loader \in Loaders :
    LET done == loaded_config[loader] IN
    done.status # "none" =>
      /\ Malformed(done.config) => done.status = "threw"
      /\ ~Malformed(done.config) =>
           (done.status = "returned" /\ done.errors = {})

(***************************************************************************)
(* Properties of the initializer's triangulation (checked under SpecTri)   *)
(***************************************************************************)

\* the keyframes a landmark has a reprojection constraint in
ConstrainedIn(map, id) == {c[1] : c \in {c \in map.constraints : c[2] = id}}

\* C36: TriangulateLandmarks adds a landmark only if it is one of the ids
\* asked for, it is measured in at least 3 frames whose poses are in the map
\* and the triangulation returns a point, which is the point stored; a
\* landmark that is in the map already keeps its point and its constraints;
\* a landmark that is added gets a reprojection constraint in exactly the
\* keyframes that measure it, and nothing else in the map changes.
C36_TriangulatedFromThreeKeyframes ==
  [][nTriangulations' = nTriangulations + 1 =>
       \A landmark_ids \in LandmarkIdLists,
          point \in [LandmarkIds -> {NoPoint} \cup Points] :
         TriangulateLandmarks(landmark_ids, point) =>
           /\ visual_map_'.poses = visual_map_.poses
           /\ \A id \in LandmarkIds :
                LET keyframes ==
                      tracker_[id] \cap visual_map_.poses
                    before == visual_map_.landmarks[id]
                    after == visual_map_'.landmarks[id]
                IN
                /\ before # NoPoint =>
                     /\ after = before
                     /\ ConstrainedIn(visual_map_', id)
                          = ConstrainedIn(visual_map_, id)
                /\ (before = NoPoint /\ after # NoPoint) =>
                     /\ id \in Range(landmark_ids)
                     /\ Cardinality(keyframes) >= 3
                     /\ point[id] = after
                     /\ ConstrainedIn(visual_map_', id) = keyframes
                /\ (before = NoPoint /\ after = NoPoint) =>
                     ConstrainedIn(visual_map_', id) = {}]_vars

\* a landmark measured in three keyframes and in a frame without a pose has
\* been triangulated, and a later call with another point has left it alone
C36_Witness ==
  /\ nTriangulations = 2
  /\ \E id \in LandmarkIds :
       /\ visual_map_.landmarks[id] # NoPoint
       /\ Cardinality(ConstrainedIn(visual_map_, id)) = 3
       /\ tracker_[id] = TriStamps
       /\ \E other \in LandmarkIds : visual_map_.landmarks[other] = NoPoint

(***************************************************************************)
(* Further properties of the preintegrator (checked under SpecImu) and of  *)
(* the front-end (checked under SpecVio)                                   *)
(***************************************************************************)

\* no entry of a sequence occurs in it twice
NoDuplicates(data) ==
  \A m \in 1..Len(data), n \in 1..Len(data) : m # n => data[m] # data[n]

\* C37: whatever the order of AddToBuffer, GetPose, UpdateGraph and
\* RegisterNewImuPreintegratedFactor, the interval integrator never holds an
\* IMU sample twice, and no relative constraint is built from a sample
\* counted twice.
C37_SamplesIntegratedOnce ==
  ~oob =>
    /\ NoDuplicates(pre_integrator_ij_data)
    /\ (last.op = "Register" /\ last.ok /\ ~tx.null)
         => NoDuplicates(tx.rel[1].data)

\* C40: an UpdateGraph whose graph lacks one of the five variables of the
\* anchor changes neither state i nor state k nor the working buffer.
C40_UpdateGraphAtomic ==
  [][\A graph \in Graphs :
       (UpdateGraph(graph) /\ DOMAIN graph # VarTypes)
         => /\ imu_state_i_' = imu_state_i_
            /\ imu_state_k_' = imu_state_k_
            /\ current_imu_data_buffer_' = current_imu_data_buffer_]_vars

\* C38 as stated: after initialization added_since_kf_ never exceeds
\* window_size - 1, whatever the spacing of the images.
C38_CounterBounded ==
  initialized => added_since_kf_ <= window_size - 1

\* C38, amended: an image processed after initialization at least
\* keyframe_min_time_in_seconds after the last keyframe with the counter at
\* window_size - 1 is taken as a keyframe and the counter goes back to 0, so
\* that such images never take the counter past window_size - 1; an image
\* closer to the last keyframe is never a keyframe and adds one to the counter.
C38_KeyframeForcedAfterMinTime ==
  [][(/\ initialized
      /\ Len(tracker_images') = Len(tracker_images) + 1)
       => LET t == img_arrived'[Len(img_arrived')]
              img_time == Head(Append(image_buffer_, t))
              spaced == img_time - cur_kf_time_
                          >= keyframe_min_time_in_seconds
          IN /\ (spaced /\ added_since_kf_ = window_size - 1)
                  => /\ added_since_kf_' = 0
                     /\ keyframes_' = Append(keyframes_, img_time)
                     /\ cur_kf_time_' = img_time
             /\ (spaced /\ added_since_kf_ <= window_size - 1)
                  => added_since_kf_' <= window_size - 1
             /\ ~spaced
                  => /\ added_since_kf_' = added_since_kf_ + 1
                     /\ UNCHANGED <<keyframes_, cur_kf_time_>>]_vars

\* C38 witness: of three images processed after initialization the first two
\* were refused and the third, with the counter at window_size - 1, was taken
\* as the one keyframe since
C38_Witness ==
  /\ initialized
  /\ Len(odom_published) = window_size
  /\ Len(img_arrived) = window_size + 1
  /\ Len(keyframes_) = 2
  /\ added_since_kf_ = 0
  /\ cur_kf_time_ = odom_published[window_size].t
  /\ odom_published[window_size].t
       - keyframes_[1] >= keyframe_min_time_in_seconds

====
